---- MODULE Spec2Model ----
(***************************************************************************)
(* A model of teslausb-ng: the snapshot store (snapshot.py), the archive   *)
(* driver (archive.py) and the coordinator (coordinator.py), together with *)
(* the parts of the environment they act on: the snapshots root on disk,   *)
(* the live image, the USB gadget and the archive backend.                 *)
(***************************************************************************)
EXTENDS Integers, Sequences, FiniteSets, TLC

\* ------------------------------------------------------------------ bounds
MaxId == 1          \* create gives the ids 0..MaxId (it is not called beyond)
MaxDirId == 3       \* the snapshots root can hold the directories snap-0..snap-MaxDirId
MaxTime == 1        \* creation instants are 0..MaxTime
MaxHandles == 2     \* handle objects that can be alive at once
MaxSize == 2        \* file sizes on the images are 1..MaxSize
MaxGen == 1         \* times the car rewrites a file of the live image in a run
MaxFaults == 1      \* mkdir, remove, rmtree and write_text calls that fail in a behaviour

Ids == 0..MaxDirId
Times == 0..MaxTime
HandleIds == 1..MaxHandles
Threads == {"main", "worker"}
Callers == {"main"}   \* the threads that call the store where calls do not overlap

\* ---------------------------------------------------------------- variables
VARIABLES
    disk,        \* snapshots root: snap-<id> directory -> its content
    up,          \* a process with a constructed SnapshotManager is running
    snapshots,   \* SnapshotManager._snapshots: key -> Snapshot object
    next_id,     \* SnapshotManager._next_id
    creating,    \* SnapshotManager._creating (the single-flight latch)
    handles,     \* SnapshotHandle objects
    pc,          \* position of each thread inside a store operation
    loc,         \* local variables of the operation a thread is executing
    res,         \* what the last operation of a thread returned or raised
    faults,      \* mkdir, remove, rmtree and write_text calls that have failed so far
    max_id_seen  \* history: the largest id a complete snapshot (a directory with
                 \* its marker) has had on this snapshots root so far, -1 if none

storeVars == <<disk, up, snapshots, next_id, creating, handles, pc, loc, res, faults,
               max_id_seen>>

\* ------------------------------------------------------------ on-disk state
\* metadata.json: absent, unparsable, or the record Snapshot.to_dict() wrote
NoMeta == [kind |-> "none", id |-> 0, path |-> 0, created_at |-> 0]
CorruptMeta == [kind |-> "corrupt", id |-> 0, path |-> 0, created_at |-> 0]
to_dict(s) == [kind |-> "ok", id |-> s.id, path |-> s.path, created_at |-> s.created_at]

\* a snap-<id> directory: snap.bin is absent, partly written or complete
NoDir == [exists |-> FALSE, bin |-> "none", meta |-> NoMeta, toc |-> FALSE]
EmptyDir == [NoDir EXCEPT !.exists = TRUE]

\* Snapshot dataclass
Snapshot(id, path, created_at, refcount) ==
    [id |-> id, path |-> path, created_at |-> created_at, refcount |-> refcount]

\* Snapshot.from_dict
from_dict(data) == Snapshot(data.id, data.path, data.created_at, 0)

\* everything fs.rmtree(dir) can leave behind: nothing when it succeeds; when
\* it raises part-way, the directory with any part of its files unlinked
RmtreeFailures(d) ==
    { [exists |-> TRUE, bin |-> b, meta |-> m, toc |-> t] :
        b \in {d.bin, "none"}, m \in {d.meta, NoMeta}, t \in {d.toc, FALSE} }

\* SnapshotManager._remove_snapshot_dir: rmtree if the path exists; an
\* exception of rmtree is logged and swallowed
remove_snapshot_dir(d) ==
    IF d.exists THEN {NoDir} \cup RmtreeFailures(d) ELSE {d}

\* SnapshotManager._save_metadata: write_text of to_dict; an exception is logged
\* and swallowed, and may leave the old file or a truncated one
save_metadata(d, s) ==
    { [d EXCEPT !.meta = to_dict(s)] } \cup
    (IF d.exists THEN { d, [d EXCEPT !.meta = CorruptMeta] } ELSE { d })

\* ------------------------------------------------------------- local state
\* (begun: the delete in progress has removed a file of its directory)
\* (handle: the SnapshotHandle a release() in progress was called on)
Loc0 == [snap_id |-> 0, path |-> 0, created_at |-> 0, raised |-> FALSE, oldest |-> FALSE,
         begun |-> FALSE, handle |-> 0]
NoRes == [op |-> "none", val |-> "none", id |-> 0]
Res(op, val) == [op |-> op, val |-> val, id |-> 0]
ResAt(op, val, id) == [op |-> op, val |-> val, id |-> id]
FreeHandle == [st |-> "free", key |-> 0, id |-> 0]
ReleasedHandle == [st |-> "released", key |-> 0, id |-> 0]
EmptyTable == [k \in {} |-> Snapshot(0, 0, 0, 0)]
Put(table, k, s) == [j \in DOMAIN table \cup {k} |-> IF j = k THEN s ELSE table[j]]
Drop(table, k) == [j \in DOMAIN table \ {k} |-> table[j]]

Return(t, r) ==
    /\ pc' = [pc EXCEPT ![t] = "idle"]
    /\ loc' = [loc EXCEPT ![t] = Loc0]
    /\ res' = [res EXCEPT ![t] = r]

Goto(t, p) == pc' = [pc EXCEPT ![t] = p]

\* a call of mkdir, remove, rmtree or write_text fails (one more of the
\* MaxFaults), or none does; the reflink copy may fail any number of times
Fault == faults < MaxFaults /\ faults' = faults + 1
NoFault == faults' = faults

\* ---------------------------------------------------------- store: loading
\* SnapshotManager._reconstruct_snapshot: the creation instant is the mtime of
\* snap.bin, or now() when there is no snap.bin
reconstruct_snapshot(snap_id, at) == Snapshot(snap_id, snap_id, at, 0)

\* _load_snapshots, the body of its loop for the directory snap-<i>: what the
\* directory becomes and the object registered under key i, if any. Without
\* the marker the directory goes to _remove_snapshot_dir; with it, the object
\* comes from metadata.json, or is reconstructed when that is unparsable, or
\* reconstructed and saved when it is missing
LoadDir(i, d) ==
    IF ~d.exists
    THEN { [dir |-> d, reg |-> FALSE, snap |-> Snapshot(i, i, 0, 0), failed |-> 0] }
    ELSE IF ~d.toc THEN
        { [dir |-> nd, reg |-> FALSE, snap |-> Snapshot(i, i, 0, 0),
           failed |-> IF nd.exists THEN 1 ELSE 0] :
            nd \in remove_snapshot_dir(d) }
    ELSE IF d.meta.kind = "ok" THEN
        { [dir |-> d, reg |-> TRUE, snap |-> from_dict(d.meta), failed |-> 0] }
    ELSE IF d.meta.kind = "corrupt" THEN
        { [dir |-> d, reg |-> TRUE, snap |-> reconstruct_snapshot(i, a), failed |-> 0] :
            a \in Times }
    ELSE
        UNION { { [dir |-> nd, reg |-> TRUE, snap |-> reconstruct_snapshot(i, a),
                   failed |-> IF nd.meta = to_dict(reconstruct_snapshot(i, a))
                              THEN 0 ELSE 1] :
                    nd \in save_metadata(d, reconstruct_snapshot(i, a)) } : a \in Times }

\* the loop of _load_snapshots over listdir: one outcome per directory
\* (element i+1 of the sequence is the outcome for snap-<i>)
RECURSIVE LoadFrom(_)
LoadFrom(i) ==
    IF i > MaxDirId THEN { <<>> }
    ELSE { <<o>> \o rest : o \in LoadDir(i, disk[i]), rest \in LoadFrom(i + 1) }

Max(S) == CHOOSE x \in S : \A y \in S : y <= x

RECURSIVE SumOver(_, _)
SumOver(f, S) ==
    IF S = {} THEN 0
    ELSE LET x == CHOOSE y \in S : TRUE IN f[x] + SumOver(f, S \ {x})

\* SnapshotManager.__post_init__ / _load_snapshots: every complete directory
\* is registered with a fresh object, and _next_id becomes one more than the
\* largest registered key
LoadSnapshots ==
    /\ ~up
    /\ \E outs \in LoadFrom(0) :
         LET valid == { i \in Ids : outs[i + 1].reg } IN
         /\ disk' = [i \in Ids |-> outs[i + 1].dir]
         /\ snapshots' = [i \in valid |-> outs[i + 1].snap]
         /\ next_id' = IF valid = {} THEN 0 ELSE Max(valid) + 1
         /\ faults' = faults + SumOver([i \in Ids |-> outs[i + 1].failed], Ids)
         /\ faults' <= MaxFaults
    /\ up' = TRUE
    /\ creating' = FALSE
    /\ handles' = [h \in HandleIds |-> FreeHandle]
    /\ pc' = [t \in Threads |-> "idle"]
    /\ loc' = [t \in Threads |-> Loc0]
    /\ res' = [t \in Threads |->
                 IF res[t].op = "crash" THEN ResAt("load", "in_delete", res[t].id)
                 ELSE Res("load", "ok")]
    /\ UNCHANGED max_id_seen

\* the process dies (power cut, kill): the disk stays, memory is lost. What
\* is kept of the dead process is whether it died inside a delete that had
\* begun to remove files, and of which directory
Crash ==
    /\ up
    /\ up' = FALSE
    /\ snapshots' = EmptyTable
    /\ next_id' = 0
    /\ creating' = FALSE
    /\ handles' = [h \in HandleIds |-> FreeHandle]
    /\ pc' = [t \in Threads |-> "idle"]
    /\ loc' = [t \in Threads |-> Loc0]
    /\ res' = [t \in Threads |->
                 IF pc[t] \in {"d_rm", "d_rming", "d_ret"} /\ loc[t].begun
                 THEN ResAt("crash", "in_delete", loc[t].path)
                 ELSE NoRes]
    /\ UNCHANGED <<disk, faults>>
    /\ UNCHANGED max_id_seen

\* ------------------------------------------------------- store: create()
\* (CreateBegin without the test of the latch)
CreateBegin_nolatch(t) ==
    /\ up /\ pc[t] = "idle"
    /\ next_id <= MaxId
    /\ creating' = TRUE
    /\ Goto(t, "c_mkdir")
    /\ UNCHANGED <<disk, up, snapshots, next_id, handles, loc, res, faults, max_id_seen>>

\* create_snapshot, lines 309-312: the latch, under the lock
CreateBegin(t) ==
    /\ up /\ pc[t] = "idle"
    /\ next_id <= MaxId
    /\ IF creating
       THEN /\ Return(t, Res("create", "in_progress"))
            /\ UNCHANGED <<disk, up, snapshots, next_id, creating, handles, faults>>
       ELSE /\ creating' = TRUE
            /\ Goto(t, "c_mkdir")
            /\ UNCHANGED <<disk, up, snapshots, next_id, handles, loc, res, faults>>
    /\ UNCHANGED max_id_seen

\* lines 315-321: snap_id is read from _next_id and the directory is made
\* (exist_ok keeps what an existing directory holds); mkdir may raise
CreateMkdir(t) ==
    /\ up /\ pc[t] = "c_mkdir"
    /\ \/ /\ disk' = [disk EXCEPT ![next_id] = IF @.exists THEN @ ELSE EmptyDir]
          /\ loc' = [loc EXCEPT ![t].snap_id = next_id, ![t].path = next_id]
          /\ Goto(t, "c_copy")
          /\ NoFault
       \/ /\ loc' = [loc EXCEPT ![t].snap_id = next_id, ![t].path = next_id,
                                ![t].raised = TRUE]
          /\ Goto(t, "c_fin")
          /\ Fault
          /\ UNCHANGED disk
    /\ UNCHANGED <<up, snapshots, next_id, creating, handles, res>>
    /\ UNCHANGED max_id_seen

\* line 326, copy_reflink starting: cp opens snap.bin, or fails before that
CreateCopyBegin(t) ==
    /\ up /\ pc[t] = "c_copy"
    /\ \/ /\ disk' = [disk EXCEPT ![loc[t].path].bin = "partial"]
          /\ Goto(t, "c_copying")
          /\ NoFault
       \/ /\ Goto(t, "c_cleanup")
          /\ NoFault
          /\ UNCHANGED disk
    /\ UNCHANGED <<up, snapshots, next_id, creating, handles, loc, res>>
    /\ UNCHANGED max_id_seen

\* (CreateCopyEnd writing the marker as soon as the copy is done)
CreateCopyEnd_marker(t) ==
    /\ up /\ pc[t] = "c_copying"
    /\ \/ /\ disk' = [disk EXCEPT ![loc[t].path].bin = "full", ![loc[t].path].toc = TRUE]
          /\ Goto(t, "c_meta")
          /\ NoFault
       \/ /\ \E b \in {"partial", "none"} :
                disk' = [disk EXCEPT ![loc[t].path].bin = b]
          /\ Goto(t, "c_cleanup")
          /\ NoFault
    /\ UNCHANGED <<up, snapshots, next_id, creating, handles, loc, res>>
    /\ UNCHANGED max_id_seen

\* line 326, copy_reflink ending: the clone is complete, or cp failed and left
\* a part of snap.bin or nothing
CreateCopyEnd(t) ==
    /\ up /\ pc[t] = "c_copying"
    /\ \/ /\ disk' = [disk EXCEPT ![loc[t].path].bin = "full"]
          /\ Goto(t, "c_meta")
          /\ NoFault
       \/ /\ \E b \in {"partial", "none"} :
                disk' = [disk EXCEPT ![loc[t].path].bin = b]
          /\ Goto(t, "c_cleanup")
          /\ NoFault
    /\ UNCHANGED <<up, snapshots, next_id, creating, handles, loc, res>>
    /\ UNCHANGED max_id_seen

\* lines 327-330: the copy failed; the directory is removed and
\* SnapshotCreationError raised
CreateCleanup(t) ==
    /\ up /\ pc[t] = "c_cleanup"
    /\ \E nd \in remove_snapshot_dir(disk[loc[t].path]) :
          /\ disk' = [disk EXCEPT ![loc[t].path] = nd]
          /\ IF nd.exists THEN Fault ELSE NoFault
    /\ loc' = [loc EXCEPT ![t].raised = TRUE]
    /\ Goto(t, "c_fin")
    /\ UNCHANGED <<up, snapshots, next_id, creating, handles, res>>
    /\ UNCHANGED max_id_seen

\* lines 333-341: the Snapshot object is made with created_at = now() and its
\* metadata saved
CreateMeta(t) ==
    /\ up /\ pc[t] = "c_meta"
    /\ \E at \in Times :
         /\ \E nd \in save_metadata(disk[loc[t].path],
                                    Snapshot(loc[t].snap_id, loc[t].path, at, 0)) :
               /\ disk' = [disk EXCEPT ![loc[t].path] = nd]
               /\ IF nd.meta = to_dict(Snapshot(loc[t].snap_id, loc[t].path, at, 0))
                  THEN NoFault ELSE Fault
         /\ loc' = [loc EXCEPT ![t].created_at = at]
    /\ Goto(t, "c_toc")
    /\ UNCHANGED <<up, snapshots, next_id, creating, handles, res>>
    /\ UNCHANGED max_id_seen

\* line 345: the completion marker is written; write_text may raise, and the
\* exception leaves create_snapshot through the finally clause
CreateToc(t) ==
    /\ up /\ pc[t] = "c_toc"
    /\ \/ /\ disk' = [disk EXCEPT ![loc[t].path].toc = TRUE]
          /\ max_id_seen' = IF loc[t].path > max_id_seen THEN loc[t].path ELSE max_id_seen
          /\ Goto(t, "c_reg")
          /\ NoFault
          /\ UNCHANGED loc
       \/ /\ loc' = [loc EXCEPT ![t].raised = TRUE]
          /\ Goto(t, "c_fin")
          /\ Fault
          /\ UNCHANGED <<disk, max_id_seen>>
    /\ UNCHANGED <<up, snapshots, next_id, creating, handles, res>>

\* lines 347-349: the snapshot is registered, under the lock
CreateRegister(t) ==
    /\ up /\ pc[t] = "c_reg"
    /\ snapshots' = Put(snapshots, loc[t].snap_id,
                        Snapshot(loc[t].snap_id, loc[t].path, loc[t].created_at, 0))
    /\ next_id' = loc[t].snap_id + 1
    /\ Goto(t, "c_fin")
    /\ UNCHANGED <<disk, up, creating, handles, loc, res, faults>>
    /\ UNCHANGED max_id_seen

\* lines 354-356: finally, the latch is cleared; create returns or raises
CreateFinally(t) ==
    /\ up /\ pc[t] = "c_fin"
    /\ creating' = FALSE
    /\ Return(t, IF loc[t].raised THEN Res("create", "error")
                 ELSE ResAt("create", "ok", loc[t].snap_id))
    /\ UNCHANGED <<disk, up, snapshots, next_id, handles, faults>>
    /\ UNCHANGED max_id_seen

\* ------------------------------------------------ store: acquire / release
FreeHandles == { h \in HandleIds : handles[h].st = "free" }

\* SnapshotManager.acquire
Acquire(t, snapshot_id) ==
    /\ up /\ pc[t] = "idle"
    /\ IF snapshot_id \notin DOMAIN snapshots
       THEN /\ Return(t, Res("acquire", "not_found"))
            /\ UNCHANGED <<snapshots, handles>>
       ELSE /\ FreeHandles # {}
            /\ LET h == CHOOSE x \in FreeHandles : \A y \in FreeHandles : x <= y IN
               handles' = [handles EXCEPT ![h] =
                   [st |-> "held", key |-> snapshot_id, id |-> snapshots[snapshot_id].id]]
            /\ snapshots' = [snapshots EXCEPT ![snapshot_id].refcount = @ + 1]
            /\ Return(t, Res("acquire", "ok"))
    /\ UNCHANGED <<disk, up, next_id, creating, faults>>
    /\ UNCHANGED max_id_seen

\* (release_handle leaving the refcount as it is)
release_handle_keep(table, handle) == table

\* SnapshotManager._release_handle: nothing when the object's id is not a key
\* of the table, else the object's refcount goes down, not below 0
release_handle(table, handle) ==
    IF handle.id \in DOMAIN table /\ handle.key \in DOMAIN table
    THEN [table EXCEPT ![handle.key].refcount = IF @ - 1 > 0 THEN @ - 1 ELSE 0]
    ELSE table

\* SnapshotHandle.release: releases once; a released handle is left alone
Release(t, h) ==
    /\ up /\ pc[t] = "idle"
    /\ handles[h].st \in {"held", "released"}
    /\ IF handles[h].st = "held"
       THEN /\ snapshots' = release_handle(snapshots, handles[h])
            /\ handles' = [handles EXCEPT ![h] = ReleasedHandle]
       ELSE UNCHANGED <<snapshots, handles>>
    /\ Return(t, Res("release", handles[h].st))
    /\ UNCHANGED <<disk, up, next_id, creating, faults>>
    /\ UNCHANGED max_id_seen

\* a released handle object is dropped by its holder
Forget(h) ==
    /\ up /\ handles[h].st = "released"
    /\ handles' = [handles EXCEPT ![h] = FreeHandle]
    /\ UNCHANGED <<disk, up, snapshots, next_id, creating, pc, loc, res, faults>>
    /\ UNCHANGED max_id_seen

\* ------------------------------------------------------- store: delete()
\* (delete_locked without its refcount check)
delete_locked_unchecked(t, snapshot_id, op) ==
    IF snapshot_id \notin DOMAIN snapshots
    THEN /\ Return(t, Res(op, "false"))
         /\ UNCHANGED snapshots
    ELSE /\ snapshots' = Drop(snapshots, snapshot_id)
         /\ loc' = [loc EXCEPT ![t].snap_id = snapshot_id,
                               ![t].path = snapshots[snapshot_id].path,
                               ![t].oldest = (op # "delete")]
         /\ Goto(t, "d_toc")
         /\ UNCHANGED res

\* delete_snapshot, lines 426-439, under the lock: False when the id is not
\* registered, SnapshotInUseError when it is referenced, else the entry is
\* dropped from the table. delete_oldest_if_deletable turns the error in False
delete_locked(t, snapshot_id, op) ==
    IF snapshot_id \notin DOMAIN snapshots
    THEN /\ Return(t, Res(op, "false"))
         /\ UNCHANGED snapshots
    ELSE IF snapshots[snapshot_id].refcount > 0
    THEN /\ Return(t, Res(op, IF op = "delete" THEN "in_use" ELSE "false"))
         /\ UNCHANGED snapshots
    ELSE /\ snapshots' = Drop(snapshots, snapshot_id)
         /\ loc' = [loc EXCEPT ![t].snap_id = snapshot_id,
                               ![t].path = snapshots[snapshot_id].path,
                               ![t].oldest = (op # "delete")]
         /\ Goto(t, "d_toc")
         /\ UNCHANGED res

DeleteBegin(t, snapshot_id) ==
    /\ up /\ pc[t] = "idle"
    /\ delete_locked(t, snapshot_id, "delete")
    /\ UNCHANGED <<disk, up, next_id, creating, handles, faults>>
    /\ UNCHANGED max_id_seen

\* lines 446-450: the marker is removed first, if it exists; an exception of
\* fs.remove is logged and swallowed
DeleteToc(t) ==
    /\ up /\ pc[t] = "d_toc"
    /\ \/ /\ disk' = [disk EXCEPT ![loc[t].path].toc = FALSE]
          /\ loc' = [loc EXCEPT ![t].begun = disk[loc[t].path].toc]
          /\ NoFault
       \/ /\ disk[loc[t].path].toc
          /\ Fault
          /\ UNCHANGED <<disk, loc>>
    /\ Goto(t, "d_rm")
    /\ UNCHANGED <<up, snapshots, next_id, creating, handles, res>>
    /\ UNCHANGED max_id_seen

\* the files a directory holds
Files(d) ==
    (IF d.bin # "none" THEN {"bin"} ELSE {}) \cup
    (IF d.meta.kind # "none" THEN {"meta"} ELSE {}) \cup
    (IF d.toc THEN {"toc"} ELSE {})

Unlink(d, f) ==
    IF f = "bin" THEN [d EXCEPT !.bin = "none"]
    ELSE IF f = "meta" THEN [d EXCEPT !.meta = NoMeta]
    ELSE [d EXCEPT !.toc = FALSE]

\* line 453, _remove_snapshot_dir(snapshot.path), file by file: rmtree unlinks
\* the files in the order the directory lists them and then removes the
\* directory; an exception at any point is logged and swallowed
DeleteRmtree(t) ==
    /\ up /\ pc[t] = "d_rm"
    /\ LET d == disk[loc[t].path] IN
       \/ /\ ~d.exists
          /\ Goto(t, "d_ret")
          /\ NoFault
          /\ UNCHANGED <<disk, loc>>
       \/ /\ d.exists
          /\ \E f \in Files(d) : disk' = [disk EXCEPT ![loc[t].path] = Unlink(d, f)]
          /\ loc' = [loc EXCEPT ![t].begun = TRUE]
          /\ Goto(t, "d_rming")
          /\ NoFault
       \/ /\ d.exists /\ Files(d) = {}
          /\ disk' = [disk EXCEPT ![loc[t].path] = NoDir]
          /\ Goto(t, "d_ret")
          /\ NoFault
          /\ UNCHANGED loc
       \/ /\ d.exists
          /\ Goto(t, "d_ret")
          /\ Fault
          /\ UNCHANGED <<disk, loc>>
    /\ UNCHANGED <<up, snapshots, next_id, creating, handles, res>>
    /\ UNCHANGED max_id_seen

DeleteRmtreeMore(t) ==
    /\ up /\ pc[t] = "d_rming"
    /\ LET d == disk[loc[t].path] IN
       \/ /\ \E f \in Files(d) : disk' = [disk EXCEPT ![loc[t].path] = Unlink(d, f)]
          /\ NoFault
          /\ UNCHANGED pc
       \/ /\ Files(d) = {}
          /\ disk' = [disk EXCEPT ![loc[t].path] = NoDir]
          /\ Goto(t, "d_ret")
          /\ NoFault
       \/ /\ Goto(t, "d_ret")
          /\ Fault
          /\ UNCHANGED disk
    /\ UNCHANGED <<up, snapshots, next_id, creating, handles, loc, res>>
    /\ UNCHANGED max_id_seen

\* lines 455-456: delete_snapshot returns True
DeleteReturn(t) ==
    /\ up /\ pc[t] = "d_ret"
    /\ Return(t, Res(IF loc[t].oldest THEN "delete_oldest" ELSE "delete", "true"))
    /\ UNCHANGED <<disk, up, snapshots, next_id, creating, handles, faults>>
    /\ UNCHANGED max_id_seen

\* SnapshotManager.get_deletable_snapshots, and the head of that list: a
\* snapshot with refcount 0 whose creation instant is the earliest (sorted() is
\* stable, so among equal instants the table's order decides)
Deletable == { k \in DOMAIN snapshots : snapshots[k].refcount = 0 }
\* (the list sorted newest first)
OldestDeletable_newest ==
    { k \in Deletable : \A j \in Deletable : snapshots[k].created_at >= snapshots[j].created_at }
OldestDeletable ==
    { k \in Deletable : \A j \in Deletable : snapshots[k].created_at <= snapshots[j].created_at }

\* delete_oldest_if_deletable, lines 464-468
DeleteOldestBegin(t) ==
    /\ up /\ pc[t] = "idle"
    /\ IF Deletable = {}
       THEN Return(t, Res("delete_oldest", "false"))
       ELSE /\ \E k \in OldestDeletable :
                 loc' = [loc EXCEPT ![t].snap_id = snapshots[k].id]
            /\ Goto(t, "do_call")
            /\ UNCHANGED res
    /\ UNCHANGED <<disk, up, snapshots, next_id, creating, handles, faults>>
    /\ UNCHANGED max_id_seen

\* delete_oldest_if_deletable, lines 469-473: delete_snapshot(oldest.id)
DeleteOldestCall(t) ==
    /\ up /\ pc[t] = "do_call"
    /\ delete_locked(t, loc[t].snap_id, "delete_oldest")
    /\ UNCHANGED <<disk, up, next_id, creating, handles, faults>>
    /\ UNCHANGED max_id_seen

\* --------------------------------------- coordinator, archive, environment
VARIABLES
    cfg,         \* CoordinatorConfig / ArchiveManager options and the entry point
    cstate,      \* Coordinator._state
    cpc,         \* position of the coordinator in run() / run_once()
    cloc,        \* locals of the cycle: snapshot, handle, pending exception,
                 \* gadget_was_enabled
    stop,        \* Coordinator._stop_event
    result,      \* the ArchiveResult of the cycle (Coordinator._last_archive)
    cleanup,     \* the (deleted, skipped) pair delete_archived_files returned
    udc,         \* the USB gadget is bound to the UDC (the car sees the drive)
    hostLive,    \* what the host is doing with cam_disk.bin: none, fsck, rw
    live,        \* the files of the live image cam_disk.bin
    image,       \* the files of snap.bin, as the last reflink copy captured them
    copy_log,    \* what copy_directory reported for each directory this cycle
    purged       \* the first eager purge of the run has finished

coordVars == <<cfg, cstate, cpc, cloc, stop, result, cleanup, udc, hostLive, live,
               image, copy_log, purged>>
vars == <<storeVars, coordVars>>

\* the clip directories of an image that hold footage in this model; each
\* holds at most one file (ArchiveManager.DIR_TO_PATH names where they are)
DirNames == {"SavedClips", "SentryClips"}

\* a file of an image: its size (0: no such file) and which version of its
\* content it holds (the car's rewrites count up)
Sizes == 1..MaxSize
FileState == [size : 0..MaxSize, gen : 0..MaxGen]
NoFile == [size |-> 0, gen |-> 0]

\* ArchiveResult: snapshot_id, state, files_transferred and archived_files,
\* the dict from directory name to the manifest of that directory (here the
\* size recorded for the directory's file)
NoManifests == [d \in {} |-> 0]
NoResult == [snapshot_id |-> -1, state |-> "none", files_transferred |-> 0,
             archived_files |-> NoManifests, error |-> <<>>]
NoCleanup == [deleted |-> 0, skipped |-> 0]
\* (disable_failed: the window of this cycle was left because disable() raised
\* or did not take effect)
\* (bound_at_entry: the gadget was bound when the window of this cycle began;
\* fsck: how fsck_image ended in this cycle: "ok" for True, "failed" for False,
\* "raised" for an exception)
CLoc0 == [snap |-> 0, handle |-> 0, raised |-> FALSE, gadget_was_enabled |-> FALSE,
          disable_failed |-> FALSE, bound_at_entry |-> FALSE, fsck |-> "none"]
NoLog == [d \in DirNames |-> "none"]

\* ArchiveBackend.copy_directory on one directory of the mounted snapshot: a
\* CopyResult. The manifest is the scan of the directory; a successful copy
\* transferred all, some or none of the files (none when the destination has
\* them already). The interface does not forbid a failed CopyResult to carry
\* the scan (RcloneBackend's carries none)
CopyDirectory(img, d) ==
    { [success |-> TRUE, files_transferred |-> n, archived_files |-> img[d].size] :
        n \in 0..(IF img[d].size > 0 THEN 1 ELSE 0) } \cup
    { [success |-> FALSE, files_transferred |-> 0, archived_files |-> a] :
        a \in {0, img[d].size} }

\* ArchiveManager._get_dirs_to_archive with the default options: SavedClips
\* and SentryClips are enabled and exist on every image
get_dirs_to_archive == DirNames

\* (RecordManifests keeping the manifest of every directory)
RecordManifests_all(c) ==
    [d \in { x \in DOMAIN c : c[x].archived_files > 0 } |-> c[d].archived_files]

\* archive_snapshot, lines 411-418: the manifest of a directory is kept only
\* when its copy succeeded and the manifest is not empty
RecordManifests(c) ==
    [d \in { x \in DOMAIN c : c[x].success /\ c[x].archived_files > 0 } |->
        c[d].archived_files]

\* the order in which _get_dirs_to_archive lists the directories
DirOrder == <<"SavedClips", "SentryClips">>

\* the directories archive_snapshot calls copy_directory for: none when the
\* backend is not reachable, else every enumerated one
copy_calls(reachable, c) == IF reachable THEN DOMAIN c ELSE {}

\* result.error: the strings "<dst_name>: <error>" of the failed directories,
\* in the order of the loop, to be joined with "; " (here the sequence of the
\* directory names)
JoinErrors(c) == SelectSeq(DirOrder, LAMBDA d : d \in DOMAIN c /\ ~c[d].success)

\* (archive_snapshot reporting FAILED only when every directory failed)
archive_snapshot_lenient(snapshot_id, reachable, c) ==
    IF ~reachable
    THEN [snapshot_id |-> snapshot_id, state |-> "failed", files_transferred |-> 0,
          archived_files |-> NoManifests, error |-> <<"Archive not reachable">>]
    ELSE [snapshot_id |-> snapshot_id,
          state |-> IF \A d \in DOMAIN c : ~c[d].success THEN "failed" ELSE "completed",
          files_transferred |->
              SumOver([d \in DOMAIN c |-> IF c[d].success THEN c[d].files_transferred ELSE 0],
                      DOMAIN c),
          archived_files |-> RecordManifests(c),
          error |-> JoinErrors(c)]

\* archive_snapshot, given whether the backend is reachable and the CopyResult
\* of each enumerated directory: FAILED with "Archive not reachable" before
\* any copy; else COMPLETED when no copy failed (also when there is no
\* directory), FAILED with the joined errors otherwise
archive_snapshot(snapshot_id, reachable, c) ==
    IF ~reachable
    THEN [snapshot_id |-> snapshot_id, state |-> "failed", files_transferred |-> 0,
          archived_files |-> NoManifests, error |-> <<"Archive not reachable">>]
    ELSE [snapshot_id |-> snapshot_id,
          state |-> IF \E d \in DOMAIN c : ~c[d].success THEN "failed" ELSE "completed",
          files_transferred |->
              SumOver([d \in DOMAIN c |-> IF c[d].success THEN c[d].files_transferred ELSE 0],
                      DOMAIN c),
          archived_files |-> RecordManifests(c),
          error |-> JoinErrors(c)]

\* (delete_archived_files without the comparison of sizes)
delete_archived_files_nocheck(af, lv, failing) ==
    LET gone == { d \in DOMAIN af : lv[d].size > 0 /\ d \notin failing } IN
    [live |-> [d \in DOMAIN lv |-> IF d \in gone THEN [lv[d] EXCEPT !.size = 0] ELSE lv[d]],
     deleted |-> Cardinality(gone),
     skipped |-> Cardinality(DOMAIN af) - Cardinality(gone)]

\* (delete_archived_files with the comparison of sizes the wrong way round)
delete_archived_files_inverted(af, lv, failing) ==
    LET gone == { d \in DOMAIN af :
                    lv[d].size > 0 /\ d \notin failing /\ lv[d].size # af[d] } IN
    [live |-> [d \in DOMAIN lv |-> IF d \in gone THEN [lv[d] EXCEPT !.size = 0] ELSE lv[d]],
     deleted |-> Cardinality(gone),
     skipped |-> Cardinality(DOMAIN af) - Cardinality(gone)]

\* ArchiveManager.delete_archived_files over the manifests af and the mounted
\* live image lv: an entry is unlinked when the file exists, stat and remove
\* do not raise (failing: the entries for which one of them does) and the
\* file's size is the manifest's; every other entry is counted as skipped
delete_archived_files(af, lv, failing) ==
    LET gone == { d \in DOMAIN af :
                    lv[d].size > 0 /\ d \notin failing /\ lv[d].size = af[d] } IN
    [live |-> [d \in DOMAIN lv |-> IF d \in gone THEN [lv[d] EXCEPT !.size = 0] ELSE lv[d]],
     deleted |-> Cardinality(gone),
     skipped |-> Cardinality(DOMAIN af) - Cardinality(gone)]

\* ------------------------------------------------- the store on its own
\* a step of thread t inside the store operation it has entered
StoreStep(t) ==
    \/ CreateMkdir(t) \/ CreateCopyBegin(t) \/ CreateCopyEnd(t) \/ CreateCleanup(t)
    \/ CreateMeta(t) \/ CreateToc(t) \/ CreateRegister(t) \/ CreateFinally(t)
    \/ DeleteToc(t) \/ DeleteRmtree(t) \/ DeleteRmtreeMore(t) \/ DeleteReturn(t)
    \/ DeleteOldestCall(t)

\* no coordinator is constructed: the store is driven by its callers
NoCoordinator ==
    /\ cfg = [mode |-> "none", gadget |-> FALSE, cam_disk_path |-> FALSE]
    /\ cstate = "stopped"
    /\ cpc = "done"
    /\ cloc = CLoc0
    /\ stop = FALSE
    /\ result = NoResult
    /\ cleanup = NoCleanup
    /\ udc = FALSE
    /\ hostLive = "none"
    /\ live = [d \in DirNames |-> NoFile]
    /\ image = [d \in DirNames |-> NoFile]
    /\ copy_log = NoLog
    /\ purged = FALSE

StoreInit ==
    /\ disk = [i \in Ids |-> NoDir]
    /\ up = TRUE
    /\ snapshots = EmptyTable
    /\ next_id = 0
    /\ creating = FALSE
    /\ handles = [h \in HandleIds |-> FreeHandle]
    /\ pc = [t \in Threads |-> "idle"]
    /\ loc = [t \in Threads |-> Loc0]
    /\ res = [t \in Threads |-> NoRes]
    /\ faults = 0
    /\ max_id_seen = -1
    /\ NoCoordinator

StoreNext ==
    \/ \E t \in Callers : CreateBegin(t) /\ UNCHANGED coordVars
    \/ \E t \in Callers : CreateMkdir(t) /\ UNCHANGED coordVars
    \/ \E t \in Callers : CreateCopyBegin(t) /\ UNCHANGED coordVars
    \/ \E t \in Callers : CreateCopyEnd(t) /\ UNCHANGED coordVars
    \/ \E t \in Callers : CreateCleanup(t) /\ UNCHANGED coordVars
    \/ \E t \in Callers : CreateMeta(t) /\ UNCHANGED coordVars
    \/ \E t \in Callers : CreateToc(t) /\ UNCHANGED coordVars
    \/ \E t \in Callers : CreateRegister(t) /\ UNCHANGED coordVars
    \/ \E t \in Callers : CreateFinally(t) /\ UNCHANGED coordVars
    \/ \E t \in Callers, i \in Ids : Acquire(t, i) /\ UNCHANGED coordVars
    \/ \E t \in Callers, h \in HandleIds : Release(t, h) /\ UNCHANGED coordVars
    \/ \E h \in HandleIds : Forget(h) /\ UNCHANGED coordVars
    \/ \E t \in Callers, i \in Ids : DeleteBegin(t, i) /\ UNCHANGED coordVars
    \/ \E t \in Callers : DeleteToc(t) /\ UNCHANGED coordVars
    \/ \E t \in Callers : DeleteRmtree(t) /\ UNCHANGED coordVars
    \/ \E t \in Callers : DeleteRmtreeMore(t) /\ UNCHANGED coordVars
    \/ \E t \in Callers : DeleteReturn(t) /\ UNCHANGED coordVars
    \/ \E t \in Callers : DeleteOldestBegin(t) /\ UNCHANGED coordVars
    \/ \E t \in Callers : DeleteOldestCall(t) /\ UNCHANGED coordVars
    \/ Crash /\ UNCHANGED coordVars
    \/ LoadSnapshots /\ UNCHANGED coordVars

SpecStore == StoreInit /\ [][StoreNext]_vars


\* ------------------------------------------------------------ coordinator
\* the coordinator runs on the thread "main"; while it is inside a call to the
\* store the steps of that call are the store's
Main == "main"
InStoreCall == cpc \in {"purge_w", "create_w", "post_delete_w"}
MinFree == CHOOSE x \in FreeHandles : \A y \in FreeHandles : x <= y

\* run(), lines 373-374: the stop event is cleared, state STARTING
CRunStart ==
    /\ cpc = "start" /\ cfg.mode = "run"
    /\ stop' = FALSE
    /\ cstate' = "starting"
    /\ cpc' = "loop"
    /\ UNCHANGED <<storeVars, cfg, cloc, result, cleanup, udc, hostLive, live, image,
                   copy_log, purged>>

\* run_once(): False when the backend is not reachable, else one cycle
CRunOnce ==
    /\ cpc = "start" /\ cfg.mode = "run_once"
    /\ \/ cpc' = "cycle"
       \/ cpc' = "done"
    /\ UNCHANGED <<storeVars, cfg, cstate, cloc, stop, result, cleanup, udc, hostLive,
                   live, image, copy_log, purged>>

\* run(), line 403, and _wait_for_archive_reachable, line 193
CLoop ==
    /\ cpc = "loop"
    /\ IF stop
       THEN cpc' = "finally" /\ UNCHANGED cstate
       ELSE cpc' = "probe" /\ cstate' = "waiting_for_archive"
    /\ UNCHANGED <<storeVars, cfg, cloc, stop, result, cleanup, udc, hostLive, live,
                   image, copy_log, purged>>

\* _wait_for_archive_reachable, lines 195-202: reachable, or the wait between
\* two probes is cut short by the stop event, or is_reachable() raises: the
\* call is in no try block, and run() has a finally clause and no except
CProbe ==
    /\ cpc = "probe"
    /\ \/ cpc' = "cycle"
       \/ stop /\ cpc' = "finally"
       \/ cfg.mode = "run" /\ cpc' = "finally"
    /\ UNCHANGED <<storeVars, cfg, cstate, cloc, stop, result, cleanup, udc, hostLive,
                   live, image, copy_log, purged>>

\* (CCycleStart going past the eager purge)
CCycleStart_nopurge ==
    /\ cpc = "cycle"
    /\ cstate' = "archiving"
    /\ cloc' = CLoc0
    /\ copy_log' = NoLog
    /\ cleanup' = NoCleanup
    /\ cpc' = "idle_wait"
    /\ UNCHANGED <<storeVars, cfg, stop, result, udc, hostLive, live, image, purged>>

\* _do_archive_cycle, line 217
CCycleStart ==
    /\ cpc = "cycle"
    /\ cstate' = "archiving"
    /\ cloc' = CLoc0
    /\ copy_log' = NoLog
    /\ cleanup' = NoCleanup
    /\ cpc' = "purge"
    /\ UNCHANGED <<storeVars, cfg, stop, result, udc, hostLive, live, image, purged>>

\* lines 223-224, the eager purge: delete_oldest_if_deletable() is called
CPurgeCall ==
    /\ cpc = "purge"
    /\ DeleteOldestBegin(Main)
    /\ cpc' = "purge_w"
    /\ UNCHANGED <<cfg, cstate, cloc, stop, result, cleanup, udc, hostLive, live, image,
                   copy_log, purged>>

\* a step of the store operation the coordinator is in; the reflink copy, when
\* it completes, has captured the live image
CStoreStep ==
    /\ InStoreCall
    /\ StoreStep(Main)
    /\ image' = IF pc[Main] = "c_copying" /\ pc'[Main] = "c_meta" THEN live ELSE image
    /\ UNCHANGED <<cfg, cstate, cpc, cloc, stop, result, cleanup, udc, hostLive, live,
                   copy_log, purged>>

\* lines 223-224: the loop goes on while the call returns True
CPurgeRet ==
    /\ cpc = "purge_w" /\ pc[Main] = "idle"
    /\ IF res[Main].val = "true"
       THEN cpc' = "purge" /\ UNCHANGED purged
       ELSE cpc' = "idle_wait" /\ purged' = TRUE
    /\ UNCHANGED <<storeVars, cfg, cstate, cloc, stop, result, cleanup, udc, hostLive,
                   live, image, copy_log>>

\* lines 242-245: with an idle detector configured wait_for_idle is called; it
\* returns True, or False on its timeout and False at once when the stop event
\* is set, and the value only selects a log line: the cycle goes on. The stop
\* event is not read anywhere between the wait and the end of the cycle.
CIdleWait ==
    /\ cpc = "idle_wait"
    /\ cpc' = "create"
    /\ UNCHANGED <<storeVars, cfg, cstate, cloc, stop, result, cleanup, udc, hostLive,
                   live, image, copy_log, purged>>

\* archive_new_snapshot, line 556: create_snapshot()
CCreateCall ==
    /\ cpc = "create"
    /\ CreateBegin(Main)
    /\ cpc' = "create_w"
    /\ UNCHANGED <<cfg, cstate, cloc, stop, result, cleanup, udc, hostLive, live, image,
                   copy_log, purged>>

\* create_snapshot returned the snapshot, or raised into the except clause of
\* _do_archive_cycle
CCreateRet ==
    /\ cpc = "create_w" /\ pc[Main] = "idle"
    /\ IF res[Main].val = "ok"
       THEN cpc' = "acquire" /\ cloc' = [cloc EXCEPT !.snap = res[Main].id]
       ELSE cpc' = "failed" /\ UNCHANGED cloc
    /\ UNCHANGED <<storeVars, cfg, cstate, stop, result, cleanup, udc, hostLive, live,
                   image, copy_log, purged>>

\* archive_new_snapshot, line 557: acquire(snapshot.id)
CAcquire ==
    /\ cpc = "acquire"
    /\ Acquire(Main, cloc.snap)
    /\ IF cloc.snap \in DOMAIN snapshots
       THEN cpc' = "mount" /\ cloc' = [cloc EXCEPT !.handle = MinFree]
       ELSE cpc' = "failed" /\ UNCHANGED cloc
    /\ UNCHANGED <<cfg, cstate, stop, result, cleanup, udc, hostLive, live, image,
                   copy_log, purged>>

\* line 560, mount_fn(snapshot.image_path): mounted read-only, or MountError
CMount ==
    /\ cpc = "mount"
    /\ \/ cpc' = "archive" /\ UNCHANGED cloc
       \/ cpc' = "release" /\ cloc' = [cloc EXCEPT !.raised = TRUE]
    /\ UNCHANGED <<storeVars, cfg, cstate, stop, result, cleanup, udc, hostLive, live,
                   image, copy_log, purged>>

\* line 561, archive_snapshot(handle, mount_path), and the unmount: a result,
\* or an exception of the backend or of the unmount on the way to the finally
CArchive ==
    /\ cpc = "archive"
    /\ \/ /\ result' = archive_snapshot(cloc.snap, FALSE, NoLog)
          /\ UNCHANGED <<copy_log, cloc>>
       \/ \E c \in [get_dirs_to_archive ->
                      UNION { CopyDirectory(image, d) : d \in get_dirs_to_archive }] :
             /\ \A d \in get_dirs_to_archive : c[d] \in CopyDirectory(image, d)
             /\ result' = archive_snapshot(cloc.snap, TRUE, c)
             /\ copy_log' = [d \in DirNames |->
                               IF d \notin DOMAIN c THEN "none"
                               ELSE IF c[d].success THEN "ok" ELSE "failed"]
             /\ UNCHANGED cloc
       \/ /\ cloc' = [cloc EXCEPT !.raised = TRUE]
          /\ UNCHANGED <<result, copy_log>>
    /\ cpc' = "release"
    /\ UNCHANGED <<storeVars, cfg, cstate, stop, cleanup, udc, hostLive, live,
                   image, purged>>

\* (CRelease releasing the handle only when nothing was raised)
CRelease_onsuccess ==
    /\ cpc = "release"
    /\ IF cloc.raised THEN UNCHANGED storeVars ELSE Release(Main, cloc.handle)
    /\ cpc' = "released"
    /\ UNCHANGED <<cfg, cstate, cloc, stop, result, cleanup, udc, hostLive, live, image,
                   copy_log, purged>>

\* lines 579-580: finally, handle.release()
CRelease ==
    /\ cpc = "release"
    /\ Release(Main, cloc.handle)
    /\ cpc' = "released"
    /\ UNCHANGED <<cfg, cstate, cloc, stop, result, cleanup, udc, hostLive, live, image,
                   copy_log, purged>>

\* archive_new_snapshot returns the result or lets the exception through; its
\* handle goes out of scope
CReturn ==
    /\ cpc = "released"
    /\ Forget(cloc.handle)
    /\ cpc' = IF cloc.raised THEN "failed" ELSE "result"
    /\ UNCHANGED <<cfg, cstate, cloc, stop, result, cleanup, udc, hostLive, live, image,
                   copy_log, purged>>

\* (CResult entering the window for any result that has manifests)
CResult_any ==
    /\ cpc = "result"
    /\ cpc' = IF /\ DOMAIN result.archived_files # {}
                 /\ cfg.cam_disk_path
              THEN "w_gadget" ELSE "post_delete"
    /\ UNCHANGED <<storeVars, cfg, cstate, cloc, stop, result, cleanup, udc, hostLive,
                   live, image, copy_log, purged>>

\* _do_archive_cycle, lines 260-274: the delete window is entered only for a
\* COMPLETED result that has manifests, when a live image path is configured
CResult ==
    /\ cpc = "result"
    /\ cpc' = IF /\ result.state = "completed"
                 /\ DOMAIN result.archived_files # {}
                 /\ cfg.cam_disk_path
              THEN "w_gadget" ELSE "post_delete"
    /\ UNCHANGED <<storeVars, cfg, cstate, cloc, stop, result, cleanup, udc, hostLive,
                   live, image, copy_log, purged>>


\* (WGadget going on to the repair when disable did not take effect)
WGadget_proceed ==
    /\ cpc = "w_gadget"
    /\ IF cfg.gadget /\ udc
       THEN \/ /\ udc' = FALSE
               /\ cloc' = [cloc EXCEPT !.gadget_was_enabled = TRUE, !.bound_at_entry = TRUE]
               /\ cpc' = "w_fsck"
            \/ /\ cpc' = "w_fsck"
               /\ cloc' = [cloc EXCEPT !.disable_failed = TRUE, !.bound_at_entry = TRUE]
               /\ UNCHANGED udc
       ELSE /\ cpc' = "w_fsck"
            /\ cloc' = [cloc EXCEPT !.bound_at_entry = udc]
            /\ UNCHANGED udc
    /\ UNCHANGED <<storeVars, cfg, cstate, stop, result, cleanup, hostLive, live, image,
                   copy_log, purged>>

\* _delete_archived_files, lines 317-332: with a gadget configured and enabled,
\* disable() and the check that it took effect; the window is left when
\* disable raised or the gadget is still bound
WGadget ==
    /\ cpc = "w_gadget"
    /\ IF cfg.gadget /\ udc
       THEN \/ /\ udc' = FALSE
               /\ cloc' = [cloc EXCEPT !.gadget_was_enabled = TRUE, !.bound_at_entry = TRUE]
               /\ cpc' = "w_fsck"
            \/ /\ cpc' = "post_delete"
               /\ cloc' = [cloc EXCEPT !.disable_failed = TRUE, !.bound_at_entry = TRUE]
               /\ UNCHANGED udc
       ELSE /\ cpc' = "w_fsck"
            /\ cloc' = [cloc EXCEPT !.bound_at_entry = udc]
            /\ UNCHANGED udc
    /\ UNCHANGED <<storeVars, cfg, cstate, stop, result, cleanup, hostLive, live, image,
                   copy_log, purged>>

\* lines 336-338, fsck_image(cam_disk) starting: the image is attached to a
\* loop device and fsck -p runs on it, or the loop device cannot be set up
\* and fsck_image returns False
WFsckBegin ==
    /\ cpc = "w_fsck"
    /\ \/ hostLive' = "fsck" /\ cpc' = "w_fscking" /\ UNCHANGED cloc
       \/ /\ cpc' = "w_mount"
          /\ cloc' = [cloc EXCEPT !.fsck = "failed"]
          /\ UNCHANGED hostLive
    /\ UNCHANGED <<storeVars, cfg, cstate, stop, result, cleanup, udc, live, image,
                   copy_log, purged>>

\* (WFsckEnd going on to the mount when fsck_image raised)
WFsckEnd_swallow ==
    /\ cpc = "w_fscking"
    /\ hostLive' = "none"
    /\ \E r \in {"ok", "failed", "raised"} :
          /\ cloc' = [cloc EXCEPT !.fsck = r]
          /\ cpc' = "w_mount"
    /\ UNCHANGED <<storeVars, cfg, cstate, stop, result, cleanup, udc, live, image,
                   copy_log, purged>>

\* fsck_image ending: it returns True or False (and the window goes on to the
\* mount either way), or it raises
WFsckEnd ==
    /\ cpc = "w_fscking"
    /\ hostLive' = "none"
    /\ \E r \in {"ok", "failed", "raised"} :
          /\ cloc' = [cloc EXCEPT !.fsck = r]
          /\ cpc' = IF r = "raised" THEN "w_finally" ELSE "w_mount"
    /\ UNCHANGED <<storeVars, cfg, cstate, stop, result, cleanup, udc, live, image,
                   copy_log, purged>>

\* line 340, mount_image(cam_disk, readonly=False): mounted, or MountError
WMount ==
    /\ cpc = "w_mount"
    /\ \/ hostLive' = "rw" /\ cpc' = "w_delete"
       \/ cpc' = "w_finally" /\ UNCHANGED hostLive
    /\ UNCHANGED <<storeVars, cfg, cstate, cloc, stop, result, cleanup, udc, live, image,
                   copy_log, purged>>

\* line 341: delete_archived_files(result, cam_mount)
WDelete ==
    /\ cpc = "w_delete"
    /\ \E failing \in SUBSET { d \in DOMAIN result.archived_files : live[d].size > 0 } :
         LET r == delete_archived_files(result.archived_files, live, failing) IN
         /\ live' = r.live
         /\ cleanup' = [deleted |-> r.deleted, skipped |-> r.skipped]
    /\ cpc' = "w_umount"
    /\ UNCHANGED <<storeVars, cfg, cstate, cloc, stop, result, udc, hostLive, image,
                   copy_log, purged>>

\* the exit of the with block: sync and unmount
WUmount ==
    /\ cpc = "w_umount"
    /\ hostLive' = "none"
    /\ cpc' = "w_finally"
    /\ UNCHANGED <<storeVars, cfg, cstate, cloc, stop, result, cleanup, udc, live, image,
                   copy_log, purged>>

\* lines 346-352: finally, the gadget is enabled again when this window
\* disabled it; enable() may raise, which is logged
WFinally ==
    /\ cpc = "w_finally"
    /\ IF cloc.gadget_was_enabled
       THEN \/ udc' = TRUE
            \/ UNCHANGED udc
       ELSE UNCHANGED udc
    /\ cloc' = [cloc EXCEPT !.gadget_was_enabled = FALSE]
    /\ cpc' = "post_delete"
    /\ UNCHANGED <<storeVars, cfg, cstate, stop, result, cleanup, hostLive, live, image,
                   copy_log, purged>>

\* _do_archive_cycle, lines 278-280: delete_snapshot(result.snapshot_id)
CPostDeleteCall ==
    /\ cpc = "post_delete"
    /\ DeleteBegin(Main, result.snapshot_id)
    /\ cpc' = "post_delete_w"
    /\ UNCHANGED <<cfg, cstate, cloc, stop, result, cleanup, udc, hostLive, live, image,
                   copy_log, purged>>

\* lines 281-285: whatever delete_snapshot returned or raised, the cycle ends
\* with True
CPostDeleteRet ==
    /\ cpc = "post_delete_w" /\ pc[Main] = "idle"
    /\ cpc' = "cycle_ok"
    /\ UNCHANGED <<storeVars, cfg, cstate, cloc, stop, result, cleanup, udc, hostLive,
                   live, image, copy_log, purged>>

\* (the state taken back to WAITING_FOR_ARCHIVE when the cycle returns)
CCycleEnd_waiting ==
    /\ cpc \in {"cycle_ok", "failed"}
    /\ cpc' = IF cfg.mode = "run_once" THEN "done" ELSE "sleep"
    /\ cstate' = IF cfg.mode = "run" THEN "waiting_for_archive" ELSE cstate
    /\ UNCHANGED <<storeVars, cfg, cloc, stop, result, cleanup, udc, hostLive,
                   live, image, copy_log, purged>>

\* the cycle returned (True, or False from its except clause): run_once
\* returns, run goes to its wait
CCycleEnd ==
    /\ cpc \in {"cycle_ok", "failed"}
    /\ cpc' = IF cfg.mode = "run_once" THEN "done" ELSE "sleep"
    /\ UNCHANGED <<storeVars, cfg, cstate, cloc, stop, result, cleanup, udc, hostLive,
                   live, image, copy_log, purged>>

\* run(), lines 409-429, _wait_interruptible: the wait ends, or the stop event
\* cuts it short and the loop is left
CSleep ==
    /\ cpc = "sleep"
    /\ cpc' = IF stop THEN "finally" ELSE "loop"
    /\ UNCHANGED <<storeVars, cfg, cstate, cloc, stop, result, cleanup, udc, hostLive,
                   live, image, copy_log, purged>>

\* run(), lines 431-443: finally, state STOPPED
CFinally ==
    /\ cpc = "finally"
    /\ cstate' = "stopped"
    /\ cpc' = "done"
    /\ UNCHANGED <<storeVars, cfg, cloc, stop, result, cleanup, udc, hostLive, live,
                   image, copy_log, purged>>

\* stop(), from the signal handlers run() installs (lines 377-382)
Stop ==
    /\ cfg.mode = "run" /\ cpc \notin {"start", "done"} /\ ~stop
    /\ stop' = TRUE
    /\ UNCHANGED <<storeVars, cfg, cstate, cpc, cloc, result, cleanup, udc, hostLive,
                   live, image, copy_log, purged>>

\* the car, while the gadget is bound, rewrites a file of the live image
\* (or records a new one) with any size. The store reads the live image in
\* one step, the capture of the reflink copy, so a write that falls inside a
\* call to the store is taken before or after the call
CarWrite(d) ==
    /\ udc /\ cpc \notin {"start", "done"} /\ ~InStoreCall
    /\ SumOver([x \in DirNames |-> live[x].gen], DirNames) < MaxGen
    /\ \E n \in Sizes : live' = [live EXCEPT ![d] = [size |-> n, gen |-> live[d].gen + 1]]
    /\ UNCHANGED <<storeVars, cfg, cstate, cpc, cloc, stop, result, cleanup, udc,
                   hostLive, image, copy_log, purged>>

\* a snapshot left by an earlier run: complete on disk, registered, refcount 0
StaleDir(i) == [exists |-> TRUE, bin |-> "full", meta |-> to_dict(Snapshot(i, i, 0, 0)),
                toc |-> TRUE]

\* the coordinator is constructed over a store that loaded k stale snapshots,
\* with or without a gadget object and a live image path; the gadget is bound
\* or not when it starts, and the live image holds a clip in each directory
CoordInit ==
    /\ \E k \in 0..MaxId :
         /\ disk = [i \in Ids |-> IF i < k THEN StaleDir(i) ELSE NoDir]
         /\ snapshots = [i \in 0..(k - 1) |-> Snapshot(i, i, 0, 0)]
         /\ next_id = k
         /\ max_id_seen = k - 1
    /\ up = TRUE
    /\ creating = FALSE
    /\ handles = [h \in HandleIds |-> FreeHandle]
    /\ pc = [t \in Threads |-> "idle"]
    /\ loc = [t \in Threads |-> Loc0]
    /\ res = [t \in Threads |-> NoRes]
    /\ faults = 0
    /\ cfg \in [mode : {"run", "run_once"}, gadget : BOOLEAN, cam_disk_path : BOOLEAN]
    /\ cstate = "stopped"
    /\ cpc = "start"
    /\ cloc = CLoc0
    /\ stop = FALSE
    /\ result = NoResult
    /\ cleanup = NoCleanup
    /\ udc \in BOOLEAN
    /\ hostLive = "none"
    /\ live = [d \in DirNames |-> [size |-> 1, gen |-> 0]]
    /\ image = [d \in DirNames |-> NoFile]
    /\ copy_log = NoLog
    /\ purged = FALSE

CoordNext ==
    \/ CRunStart \/ CRunOnce \/ CLoop \/ CProbe \/ CCycleStart
    \/ CPurgeCall \/ CStoreStep \/ CPurgeRet \/ CIdleWait
    \/ CCreateCall \/ CCreateRet \/ CAcquire \/ CMount \/ CArchive \/ CRelease \/ CReturn
    \/ CResult
    \/ WGadget \/ WFsckBegin \/ WFsckEnd \/ WMount \/ WDelete \/ WUmount \/ WFinally
    \/ CPostDeleteCall \/ CPostDeleteRet \/ CCycleEnd \/ CSleep \/ CFinally
    \/ Stop
    \/ \E d \in DirNames : CarWrite(d)

SpecCoord == CoordInit /\ [][CoordNext]_vars

\* ------------------------------------------- concurrent calls of create()
\* two threads call create_snapshot on a fresh store, at any moments
RaceNext ==
    \/ \E t \in Threads : CreateBegin(t) /\ UNCHANGED coordVars
    \/ \E t \in Threads : CreateMkdir(t) /\ UNCHANGED coordVars
    \/ \E t \in Threads : CreateCopyBegin(t) /\ UNCHANGED coordVars
    \/ \E t \in Threads : CreateCopyEnd(t) /\ UNCHANGED coordVars
    \/ \E t \in Threads : CreateCleanup(t) /\ UNCHANGED coordVars
    \/ \E t \in Threads : CreateMeta(t) /\ UNCHANGED coordVars
    \/ \E t \in Threads : CreateToc(t) /\ UNCHANGED coordVars
    \/ \E t \in Threads : CreateRegister(t) /\ UNCHANGED coordVars
    \/ \E t \in Threads : CreateFinally(t) /\ UNCHANGED coordVars

SpecRace == StoreInit /\ [][RaceNext]_vars

\* ------------------------------------- the store over a root left behind
\* a power cut in the middle of the create of snapshot 3, after the snapshots
\* 0 to 2 had been created and deleted: the root holds only snap-000003, with
\* snap.bin and metadata.json and without snap.toc, and no process is running
ScanInit ==
    /\ disk = [i \in Ids |->
                 IF i = 3
                 THEN [exists |-> TRUE, bin |-> "full",
                       meta |-> to_dict(Snapshot(3, 3, 0, 0)), toc |-> FALSE]
                 ELSE NoDir]
    /\ up = FALSE
    /\ snapshots = EmptyTable
    /\ next_id = 0
    /\ creating = FALSE
    /\ handles = [h \in HandleIds |-> FreeHandle]
    /\ pc = [t \in Threads |-> "idle"]
    /\ loc = [t \in Threads |-> Loc0]
    /\ res = [t \in Threads |-> NoRes]
    /\ faults = 0
    /\ max_id_seen = 2
    /\ NoCoordinator

SpecScan == ScanInit /\ [][StoreNext]_vars

\* ------------------------------------------- archive_snapshot on its own
\* archive_snapshot is called with a handle on snapshot 0, mounted, for every
\* content of the image, every set of directories _get_dirs_to_archive can
\* enumerate on it (enabled and existing), a backend that is reachable or not
\* and every CopyResult it can give for each directory
ArchiveInit ==
    /\ disk = [i \in Ids |-> IF i = 0 THEN StaleDir(0) ELSE NoDir]
    /\ up = TRUE
    /\ snapshots = [i \in {0} |-> Snapshot(0, 0, 0, 1)]
    /\ next_id = 1
    /\ creating = FALSE
    /\ handles = [h \in HandleIds |->
                    IF h = 1 THEN [st |-> "held", key |-> 0, id |-> 0] ELSE FreeHandle]
    /\ pc = [t \in Threads |-> "idle"]
    /\ loc = [t \in Threads |-> Loc0]
    /\ res = [t \in Threads |-> Res("acquire", "ok")]
    /\ faults = 0
    /\ max_id_seen = 0
    /\ image \in [DirNames -> [size : 0..MaxSize, gen : {0}]]
    /\ live = image
    /\ \E r \in BOOLEAN, D \in SUBSET DirNames :
         \E c \in [D -> UNION { CopyDirectory(image, d) : d \in D }] :
            /\ \A d \in D : c[d] \in CopyDirectory(image, d)
            /\ cfg = [mode |-> "archive_snapshot", reachable |-> r, dirs |-> D, copies |-> c]
    /\ cstate = "archiving"
    /\ cpc = "archive"
    /\ cloc = [CLoc0 EXCEPT !.snap = 0, !.handle = 1]
    /\ stop = FALSE
    /\ result = NoResult
    /\ cleanup = NoCleanup
    /\ udc = FALSE
    /\ hostLive = "none"
    /\ copy_log = NoLog
    /\ purged = FALSE

\* ArchiveManager.archive_snapshot(handle, mount_path)
ArchiveSnapshotCall ==
    /\ cpc = "archive" /\ cfg.mode = "archive_snapshot"
    /\ result' = archive_snapshot(snapshots[handles[cloc.handle].key].id, cfg.reachable,
                                  cfg.copies)
    /\ copy_log' = [d \in DirNames |->
                      IF d \notin copy_calls(cfg.reachable, cfg.copies) THEN "none"
                      ELSE IF cfg.copies[d].success THEN "ok" ELSE "failed"]
    /\ cpc' = "done"
    /\ UNCHANGED <<storeVars, cfg, cstate, cloc, stop, cleanup, udc, hostLive, live,
                   image, purged>>

SpecArchive == ArchiveInit /\ [][ArchiveSnapshotCall]_vars

\* ---------------------------------------------------- claims on the store
InCreate(t) == pc[t] \in {"c_copy", "c_copying", "c_cleanup", "c_meta", "c_toc", "c_reg", "c_fin"}
InDelete(t) == pc[t] \in {"d_toc", "d_rm", "d_rming", "d_ret"}
JustLoaded == up /\ \A t \in Threads : pc[t] = "idle" /\ res[t].op = "load"

\* C5: while a snapshot's refcount is above 0 no step of the running store
\* unregisters it or touches its directory, and a delete(id) called then
\* returns the in-use error leaving table and disk as they were; a delete gets
\* past its check only when no handle of the snapshot is held
C5_DeleteRefusedWhileReferenced ==
    [][ /\ \A i \in DOMAIN snapshots :
             (up /\ up' /\ snapshots[i].refcount > 0) =>
                 /\ i \in DOMAIN snapshots'
                 /\ disk'[snapshots[i].path] = disk[snapshots[i].path]
        /\ \A t \in Threads, i \in DOMAIN snapshots :
             (snapshots[i].refcount > 0 /\ DeleteBegin(t, i)) =>
                 /\ res'[t] = Res("delete", "in_use")
                 /\ snapshots' = snapshots /\ disk' = disk
        /\ \A t \in Threads :
             (pc[t] = "idle" /\ pc'[t] = "d_toc") =>
                 \A h \in HandleIds :
                     handles[h].st = "held" => handles[h].key # loc'[t].snap_id
      ]_vars

\* C5 witness: a delete was refused while a handle was held
C5_Witness ==
    \E t \in Threads, h \in HandleIds :
        /\ res[t] = Res("delete", "in_use")
        /\ handles[h].st = "held"
        /\ handles[h].key \in DOMAIN snapshots
        /\ snapshots[handles[h].key].refcount > 0

\* C6: after store construction no snap-<id> directory without the marker is
\* left on disk, and none is registered
C6_NoMarkerlessDirAfterLoad ==
    JustLoaded =>
        /\ \A i \in Ids : disk[i].exists => disk[i].toc
        /\ \A k \in DOMAIN snapshots : disk[k].exists /\ disk[k].toc

\* C7: at every point of create(), if the marker is in the new directory then
\* snap.bin is complete and create is past its metadata write; and a step of
\* create taken with the marker present changes nothing in the directory
C7_MarkerWrittenLast ==
    [][ \A t \in Threads :
          (InCreate(t) /\ disk[loc[t].path].toc) =>
              /\ disk[loc[t].path].bin = "full"
              /\ pc[t] \in {"c_reg", "c_fin"}
              /\ disk'[loc[t].path] = disk[loc[t].path]
      ]_vars

\* C7 witness: create has written the marker and has not returned yet
C7_Witness ==
    \E t \in Threads :
        pc[t] = "c_reg" /\ disk[loc[t].path].toc /\ disk[loc[t].path].bin = "full"

\* C8: after a crash inside a delete that had begun removing files, the next
\* construction does not register the snapshot and leaves nothing of its
\* directory
C8_InterruptedDeleteSwept ==
    \A t \in Threads :
        (JustLoaded /\ res[t].val = "in_delete") =>
            /\ res[t].id \notin DOMAIN snapshots
            /\ ~disk[res[t].id].exists

\* C9: when delete(id) is about to return True, the directory is gone and the
\* snapshot is not registered
C9_DeletedMeansGone ==
    \A t \in Threads :
        (pc[t] = "d_ret" /\ ~loc[t].oldest) =>
            /\ ~disk[loc[t].path].exists
            /\ loc[t].snap_id \notin DOMAIN snapshots

\* ---------------------------------------------- claims on the coordinator
\* the step in which delete_archived_files runs, and the files it unlinks
DeleteStep == cpc = "w_delete" /\ cpc' = "w_umount"
Unlinked(d) == live[d].size > 0 /\ live'[d].size = 0

\* C1: at no point of a coordinator run is the live image under fsck or
\* mounted read-write on the host while the gadget is bound
C1_LiveImageNeverSharedWithGadget ==
    hostLive \in {"fsck", "rw"} => ~udc

\* C2: a file is unlinked from the live image only if its directory's copy
\* reported success in this cycle and the result holds a manifest entry for
\* it; a directory whose copy failed has no manifest in the result and its
\* file is not unlinked
C2_UnlinkOnlyFromSuccessfulCopy ==
    [][ /\ DeleteStep =>
             \A d \in DirNames :
                 Unlinked(d) => copy_log[d] = "ok" /\ d \in DOMAIN result.archived_files
        /\ \A d \in DirNames :
             copy_log'[d] = "failed" =>
                 /\ d \notin DOMAIN result'.archived_files
                 /\ ~Unlinked(d)
      ]_vars

\* C2 witness: the window has unlinked the file of a directory whose copy
\* succeeded
C2_Witness ==
    /\ cpc = "w_umount"
    /\ \E d \in DirNames :
         copy_log[d] = "ok" /\ d \in DOMAIN result.archived_files /\ live[d].size = 0

\* C3: when delete_archived_files unlinks a file, the size the file has on
\* the live image at that step is the size in the manifest; an entry whose
\* live size differs stays in place, and the entries not unlinked make up the
\* skipped count
C3_UnlinkOnlyOnEqualSize ==
    [][ DeleteStep =>
          LET af == result.archived_files IN
          /\ \A d \in DirNames : Unlinked(d) => d \in DOMAIN af /\ live[d].size = af[d]
          /\ \A d \in DOMAIN af :
               (live[d].size > 0 /\ live[d].size # af[d]) => live'[d] = live[d]
          /\ cleanup'.deleted = Cardinality({ d \in DirNames : Unlinked(d) })
          /\ cleanup'.skipped = Cardinality(DOMAIN af) - cleanup'.deleted
      ]_vars

\* C3 witness: one entry was unlinked and one, whose size on the live image is
\* not the manifest's, was skipped
C3_Witness ==
    /\ cpc = "w_umount"
    /\ cleanup.deleted = 1 /\ cleanup.skipped = 1
    /\ \E d \in DOMAIN result.archived_files :
         live[d].size > 0 /\ live[d].size # result.archived_files[d]

\* C4 as stated: delete_archived_files never unlinks a file whose content on
\* the live image is not the content the snapshot captured
C4_NeverUnlinkRewritten ==
    [][ DeleteStep => \A d \in DirNames : Unlinked(d) => live[d].gen = image[d].gen ]_vars

\* C4 amended: a file the car rewrote after the snapshot to a size other than
\* the archived one is never unlinked; an unlinked file that was rewritten has
\* the size of the archived content
C4_NeverUnlinkRewrittenToOtherSize ==
    [][ DeleteStep =>
          \A d \in DirNames :
              /\ (live[d].gen # image[d].gen /\ live[d].size # image[d].size) =>
                     live'[d] = live[d]
              /\ (Unlinked(d) /\ live[d].gen # image[d].gen) =>
                     live[d].size = image[d].size
      ]_vars

\* C4 witness: the window ran over a file rewritten to another size, and the
\* file is still there
C4_Witness ==
    /\ cpc = "w_umount"
    /\ \E d \in DOMAIN result.archived_files :
         /\ live[d].gen # image[d].gen
         /\ live[d].size > 0 /\ image[d].size > 0 /\ live[d].size # image[d].size

\* C10: the store is empty when a cycle's create starts, and once the first
\* eager purge is over at most one snapshot is registered and at most one
\* snapshot directory is on disk
C10_AtMostOneSnapshot ==
    /\ (cpc = "create_w" /\ pc[Main] = "c_mkdir") => DOMAIN snapshots = {}
    /\ purged =>
         /\ Cardinality(DOMAIN snapshots) <= 1
         /\ Cardinality({ i \in Ids : disk[i].exists }) <= 1

\* the handles held on the snapshot registered under key k
HeldOn(k) == { h \in HandleIds : handles[h].st = "held" /\ handles[h].key = k }

CreateStarts == pc[Main] = "idle" /\ pc'[Main] = "c_mkdir"
ArchiveRuns == result' # result
WindowActs == hostLive' # "none" \/ (\E d \in DirNames : Unlinked(d))
SnapshotDeleteStarts == pc[Main] = "idle" /\ pc'[Main] = "d_toc" /\ ~loc'[Main].oldest
\* archive_new_snapshot has returned the result of the snapshot of this cycle
ArchiveReturned ==
    /\ result.snapshot_id = cloc.snap
    /\ \A h \in HandleIds : handles[h].st = "free"

\* C12: in a cycle the create starts only when the eager purge has returned
\* False and left nothing deletable; the archive runs on the snapshot that was
\* created, while it is held; the live image is checked, mounted or relieved
\* of a file only after the archive has returned and while the snapshot is
\* still registered; and the snapshot's delete starts only after the archive
\* has returned and the window is over
C12_CycleOrder ==
    [][ /\ CreateStarts =>
             /\ res[Main] = Res("delete_oldest", "false")
             /\ Deletable = {}
        /\ ArchiveRuns =>
             /\ res[Main] = Res("acquire", "ok")
             /\ cloc.snap \in DOMAIN snapshots
             /\ handles[cloc.handle] = [st |-> "held", key |-> cloc.snap, id |-> cloc.snap]
        /\ WindowActs =>
             /\ ArchiveReturned
             /\ cloc.snap \in DOMAIN snapshots
        /\ SnapshotDeleteStarts =>
             /\ ArchiveReturned
             /\ loc'[Main].snap_id = cloc.snap
             /\ hostLive = "none"
             /\ ~cloc.gadget_was_enabled
      ]_vars

\* a cycle that purged a stale snapshot, created and archived snapshot 1,
\* deleted a file from the live image and has begun to delete the snapshot
C12_Witness ==
    /\ cpc = "post_delete_w" /\ pc[Main] = "d_toc"
    /\ loc[Main].snap_id = 1
    /\ ~disk[0].exists
    /\ cleanup.deleted > 0

\* C13: in a cycle whose window was left because disable() raised or left the
\* gadget bound, the live image is not checked or mounted, nothing has been
\* deleted from it, the result is COMPLETED and the cycle does not fail
C13_DisableFailureSkipsDelete ==
    cloc.disable_failed =>
        /\ hostLive = "none"
        /\ cleanup = NoCleanup
        /\ result.state = "completed"
        /\ cpc \notin {"w_fsck", "w_fscking", "w_mount", "w_delete", "w_umount", "w_finally",
                        "failed"}

\* such a cycle has returned True, the gadget still bound
C13_Witness == cloc.disable_failed /\ cpc = "cycle_ok" /\ udc

\* the window is left: by its finally clause, or at once when disable failed
WindowExit == cpc \in {"w_finally", "w_gadget"} /\ cpc' = "post_delete"

\* C14: when the window is left the gadget is bound exactly if it was bound
\* when the window began, and the finally clause calls enable() only when the
\* gadget was bound at entry
C14_GadgetStateRestored ==
    [][ WindowExit =>
          /\ udc' = (IF cpc = "w_gadget" THEN udc ELSE cloc.bound_at_entry)
          /\ cloc.gadget_was_enabled => (cpc = "w_finally" /\ cloc.bound_at_entry)
      ]_vars

\* C15: in a cycle whose fsck of the live image failed, by returning False or
\* by raising, the live image is not mounted read-write and nothing is deleted
\* from it
C15_FsckFailureSkipsDelete ==
    cloc.fsck \in {"failed", "raised"} => (hostLive # "rw" /\ cleanup.deleted = 0)

\* C15, as the code has it: when fsck_image returns False the window goes on
\* to mount the live image read-write; only in a cycle whose fsck_image raised
\* is the live image not mounted read-write and no file deleted from it
C15_FsckRaiseSkipsDelete ==
    [][ /\ (cloc.fsck = "none" /\ cloc'.fsck = "failed") => cpc' = "w_mount"
        /\ cloc'.fsck = "raised" =>
             /\ hostLive' # "rw"
             /\ cpc' \notin {"w_mount", "w_delete", "w_umount"}
             /\ \A d \in DirNames : ~Unlinked(d)
      ]_vars

\* a cycle whose fsck_image raised has ended
C15_Witness == cloc.fsck = "raised" /\ cpc = "cycle_ok" /\ cleanup = NoCleanup

\* the coordinator has looked at the result of archive_new_snapshot
ResultSeen == cpc = "result" /\ cpc' # "result"

\* C16: the window is entered for every result that has manifests when a live
\* image path is configured, COMPLETED or FAILED
C16_WindowRunsOnAnyManifest ==
    [][ (ResultSeen /\ DOMAIN result.archived_files # {} /\ cfg.cam_disk_path)
            => cpc' = "w_gadget" ]_vars

\* C16, as the code has it: the window is entered exactly for a COMPLETED
\* result that has manifests when a live image path is configured; with a
\* FAILED result, whatever manifests it kept, the live image is not checked,
\* not mounted and loses no file
C16_WindowOnlyWhenCompleted ==
    [][ /\ ResultSeen =>
             ((cpc' = "w_gadget") <=>
                 /\ result.state = "completed"
                 /\ DOMAIN result.archived_files # {}
                 /\ cfg.cam_disk_path)
        /\ WindowActs => result.state = "completed"
      ]_vars

\* a cycle ended whose copy failed for one directory and succeeded for the
\* other: the result kept a manifest, and the live image its files
C16_Witness ==
    /\ cpc = "cycle_ok"
    /\ result.snapshot_id = cloc.snap
    /\ result.state = "failed"
    /\ DOMAIN result.archived_files # {}
    /\ \E d \in DirNames : copy_log[d] = "ok"
    /\ cfg.cam_disk_path
    /\ cleanup = NoCleanup
    /\ \A d \in DirNames : live[d].size > 0

\* C17: archive_snapshot returns COMPLETED or FAILED: COMPLETED exactly when
\* the backend was reachable and no enumerated directory's copy failed (so
\* also when none was enumerated), with no error; FAILED otherwise, with
\* "Archive not reachable", no copy_directory call and no manifest when the
\* backend was not reachable, else with the errors of the failed directories
\* in the order of the copies
C17_ArchiveResultTerminal ==
    cpc = "done" =>
        /\ result.state \in {"completed", "failed"}
        /\ result.snapshot_id = 0
        /\ result.state = "completed" <=>
               (cfg.reachable /\ \A d \in cfg.dirs : cfg.copies[d].success)
        /\ result.state = "completed" => result.error = <<>>
        /\ ~cfg.reachable =>
               /\ result.error = <<"Archive not reachable">>
               /\ copy_log = NoLog
               /\ result.archived_files = NoManifests
        /\ (cfg.reachable /\ result.state = "failed") =>
               /\ result.error # <<>>
               /\ \A d \in DirNames :
                     (\E i \in 1..Len(result.error) : result.error[i] = d)
                        <=> (d \in cfg.dirs /\ ~cfg.copies[d].success)
               /\ \A i, j \in 1..Len(result.error) :
                     (i < j) => (result.error[i] = DirOrder[1] /\ result.error[j] = DirOrder[2])
        /\ cfg.reachable => \A d \in DirNames : (copy_log[d] # "none") <=> (d \in cfg.dirs)

\* the copy of one directory failed and the other's succeeded with a manifest
C17_Witness ==
    /\ cpc = "done" /\ cfg.mode = "archive_snapshot"
    /\ result.state = "failed"
    /\ Len(result.error) = 1
    /\ DOMAIN result.archived_files # {}

\* create_snapshot has read its id from _next_id (line 315)
IdGiven(t) == pc[t] = "c_mkdir" /\ pc'[t] \in {"c_copy", "c_fin"}

\* C18: the id a create gives to its snapshot is one more than the largest id
\* a snapshot has ever had on this snapshots root, whatever creates, deletes
\* and restarts came before; so no id is given twice
C18_IdsNeverReused ==
    [][ \A t \in Threads : IdGiven(t) => loc'[t].snap_id = max_id_seen + 1 ]_vars

\* C19: over a root that holds only snap-000003 without its marker, the
\* directory is gone once the store is constructed, and as long as no
\* snapshot has been completed since, a create gives its snapshot the id 3
C19_PowerCutMidCreate ==
    /\ JustLoaded => ~disk[3].exists
    /\ \A t \in Threads : (InCreate(t) /\ max_id_seen = 2) => loc[t].snap_id = 3

\* thread t is inside create_snapshot, past the latch
Creating(t) == pc[t] \in {"c_mkdir", "c_copy", "c_copying", "c_cleanup", "c_meta", "c_toc",
                          "c_reg", "c_fin"}

\* C20: at most one thread is inside create past the latch, and the latch is
\* set exactly while one is (so it is clear after a create that failed); a
\* call made while a create is in flight does not enter: it raises
\* creation-in-progress and leaves the disk, the table, _next_id and the latch
\* as they are; and every create registers its snapshot under the id it
\* read, an id not registered before
C20_SingleFlightCreate ==
    /\ [](/\ Cardinality({ t \in Threads : Creating(t) }) <= 1
          /\ creating <=> (\E t \in Threads : Creating(t)))
    /\ [][ /\ \A t \in Threads :
                (pc[t] = "idle" /\ \E u \in Threads \ {t} : Creating(u)) =>
                    /\ pc'[t] = "idle"
                    /\ res'[t] # res[t] =>
                          /\ res'[t] = Res("create", "in_progress")
                          /\ UNCHANGED <<disk, snapshots, next_id, creating>>
           /\ \A t \in Threads :
                (pc[t] = "c_reg" /\ pc'[t] = "c_fin") =>
                    /\ loc[t].snap_id = next_id
                    /\ loc[t].snap_id \notin DOMAIN snapshots
                    /\ DOMAIN snapshots' = DOMAIN snapshots \cup {loc[t].snap_id}
       ]_vars

\* a call was refused while the other thread's create, the second of the
\* run, was in flight
C20_Witness ==
    \E t \in Threads, u \in Threads :
        /\ t # u
        /\ res[t] = Res("create", "in_progress")
        /\ Creating(u)
        /\ loc[u].snap_id = 1 /\ pc[u] = "c_toc"
        /\ 0 \in DOMAIN snapshots

\* C21: a create that raised has left no directory under the id it used and
\* registered nothing under it; and a create whose metadata write failed does
\* not go on to write the marker and register
C21_FailedCreateLeavesNothing ==
    /\ \A t \in Threads :
          (pc[t] = "idle" /\ res[t] = Res("create", "error")) =>
              (~disk[next_id].exists /\ next_id \notin DOMAIN snapshots)
    /\ \A t \in Threads :
          pc[t] \in {"c_toc", "c_reg"} =>
              disk[loc[t].path].meta =
                  to_dict(Snapshot(loc[t].snap_id, loc[t].path, loc[t].created_at, 0))

\* C22: once archive_new_snapshot is past its finally clause, by a result or by
\* an exception, no snapshot is referenced: outside the span from the acquire to
\* the release every refcount is 0; the post-archive delete is never answered
\* with in-use, and the eager purge leaves no snapshot behind in the table
C22_HandleReleasedOnEveryPath ==
    /\ cpc \notin {"mount", "archive", "release"} =>
          \A k \in DOMAIN snapshots : snapshots[k].refcount = 0
    /\ (cpc = "post_delete_w" /\ pc[Main] = "idle") => res[Main].val # "in_use"
    /\ cpc = "create" => DOMAIN snapshots = {}

\* the mount or the backend raised, and the handle has been released
C22_Witness ==
    /\ cpc = "released" /\ cloc.raised
    /\ cloc.snap \in DOMAIN snapshots
    /\ snapshots[cloc.snap].refcount = 0
    /\ handles[cloc.handle].st = "released"

\* C23: a cycle that got an archive result ends with True only after it called
\* delete_snapshot on the snapshot of that result; and when the next cycle is
\* about to create its snapshot, the eager purge being over, the directory of
\* the snapshot of the last result is gone from the disk
C23_PostDeleteThenPurge ==
    /\ cpc = "cycle_ok" => res[Main].op = "delete"
    /\ (cpc = "create" /\ result.snapshot_id \in Ids) => ~disk[result.snapshot_id].exists

\* C24: run() leaves its loop for the finally clause only when the stop event
\* is set: no exception raised inside the loop ends it
C24_LoopEndsOnlyOnStop == cpc = "finally" => stop

\* ------------------------------------------ ProcIdleDetector.wait_for_idle
\* idle.py, lines 27 and 30
WRITE_THRESHOLD == 500000
IDLE_CONFIRM_SECONDS == 5
\* time is counted in ticks; time.sleep(1) and stop_event.wait(timeout=1) take
\* SamplePeriod ticks, and the caller's timeout is any number of ticks
SamplePeriod == 2
MaxTimeout == 17
Timeouts == 0..MaxTimeout
\* values of write_bytes in /proc/<pid>/io; the counter goes down when the
\* process found under the name is another one than at the sample before
Counters == {0, 1, WRITE_THRESHOLD + 1, 2 * WRITE_THRESHOLD + 1}

\* a store nobody uses
IdleStore ==
    /\ disk = [i \in Ids |-> NoDir]
    /\ up = TRUE
    /\ snapshots = EmptyTable
    /\ next_id = 0
    /\ creating = FALSE
    /\ handles = [h \in HandleIds |-> FreeHandle]
    /\ pc = [t \in Threads |-> "idle"]
    /\ loc = [t \in Threads |-> Loc0]
    /\ res = [t \in Threads |-> NoRes]
    /\ faults = 0
    /\ max_id_seen = -1

\* how a delta compares with WRITE_THRESHOLD
DeltaClass(delta) ==
    IF delta < WRITE_THRESHOLD THEN "lt" ELSE IF delta = WRITE_THRESHOLD THEN "eq" ELSE "gt"
\* the last n elements of s
LastN(s, n) == IF Len(s) <= n THEN s ELSE SubSeq(s, Len(s) - n + 1, Len(s))

\* the detector's fields as wait_for_idle sets them on entry (lines 160-163),
\* the time since start_time and the value returned; and the history of the
\* call: samples read, whether a read gave nothing, the classes of the last
\* IDLE_CONFIRM_SECONDS deltas, whether WRITING was visited, the deltas seen
\* since WRITING was last left, whether the process was found missing, whether
\* the stop event ended the call, whether a delta above the threshold was seen
Detector0 ==
    [state |-> "undetermined", prev_written |-> -1, burst_size |-> 0, idle_count |-> 0,
     now |-> 0, ret |-> "none",
     samples |-> 0, unread |-> 0, recent |-> <<>>, visited_writing |-> FALSE,
     since_stop |-> 0, absent |-> FALSE, stopped |-> FALSE, loud |-> FALSE]

\* wait_for_idle(timeout) is called on a detector built with or without a
\* stop event; cloc holds the detector and the locals of the call
IdleInit ==
    /\ IdleStore
    /\ \E T \in Timeouts, e \in BOOLEAN :
         cfg = [mode |-> "wait_for_idle", timeout |-> T, stop_event |-> e]
    /\ cstate = "archiving"
    /\ cpc = "i_loop"
    /\ cloc = Detector0
    /\ stop = FALSE
    /\ result = NoResult
    /\ cleanup = NoCleanup
    /\ udc = FALSE
    /\ hostLive = "none"
    /\ live = [d \in DirNames |-> NoFile]
    /\ image = [d \in DirNames |-> NoFile]
    /\ copy_log = NoLog
    /\ purged = FALSE

IdleUnchanged ==
    UNCHANGED <<storeVars, cfg, cstate, result, cleanup, udc, hostLive, live, image,
                copy_log, purged>>

\* (the loop entered once more when the timeout has just elapsed)
IdleLoop_inclusive ==
    /\ cpc = "i_loop"
    /\ IF cloc.now <= cfg.timeout
       THEN cpc' = "i_sleep" /\ UNCHANGED cloc
       ELSE cpc' = "i_done" /\ cloc' = [cloc EXCEPT !.ret = "false"]
    /\ UNCHANGED stop
    /\ IdleUnchanged

\* line 168, the loop condition, and lines 220-221 when it is false
IdleLoop ==
    /\ cpc = "i_loop"
    /\ IF cloc.now < cfg.timeout
       THEN cpc' = "i_sleep" /\ UNCHANGED cloc
       ELSE cpc' = "i_done" /\ cloc' = [cloc EXCEPT !.ret = "false"]
    /\ UNCHANGED stop
    /\ IdleUnchanged

\* lines 169-174: stop_event.wait(timeout=1) returns True at once when the
\* event is set, and the call returns False; else one sampling period passes
IdleSleep ==
    /\ cpc = "i_sleep"
    /\ IF cfg.stop_event /\ stop
       THEN cpc' = "i_done" /\ cloc' = [cloc EXCEPT !.ret = "false", !.stopped = TRUE]
       ELSE cpc' = "i_sample" /\ cloc' = [cloc EXCEPT !.now = @ + SamplePeriod]
    /\ UNCHANGED stop
    /\ IdleUnchanged

\* (the sample ending WRITING counted as the first quiet one)
on_delta_counting(d, delta) ==
    IF d.state = "writing"
    THEN IF delta < WRITE_THRESHOLD
         THEN [d EXCEPT !.state = "idle", !.burst_size = 0, !.idle_count = 1]
         ELSE [d EXCEPT !.burst_size = @ + delta]
    ELSE IF delta > WRITE_THRESHOLD
         THEN [d EXCEPT !.state = "writing", !.burst_size = delta, !.idle_count = 0]
         ELSE IF d.idle_count + 1 >= IDLE_CONFIRM_SECONDS
              THEN [d EXCEPT !.idle_count = @ + 1, !.state = "idle", !.ret = "true"]
              ELSE [d EXCEPT !.idle_count = @ + 1]

\* (a delta equal to the threshold taken for a write in progress)
on_delta_strict(d, delta) ==
    IF d.state = "writing"
    THEN IF delta < WRITE_THRESHOLD
         THEN [d EXCEPT !.state = "idle", !.burst_size = 0, !.idle_count = 0]
         ELSE [d EXCEPT !.burst_size = @ + delta]
    ELSE IF delta >= WRITE_THRESHOLD
         THEN [d EXCEPT !.state = "writing", !.burst_size = delta, !.idle_count = 0]
         ELSE IF d.idle_count + 1 >= IDLE_CONFIRM_SECONDS
              THEN [d EXCEPT !.idle_count = @ + 1, !.state = "idle", !.ret = "true"]
              ELSE [d EXCEPT !.idle_count = @ + 1]

\* lines 193-218, the state machine on one delta
on_delta(d, delta) ==
    IF d.state = "writing"
    THEN IF delta < WRITE_THRESHOLD
         THEN [d EXCEPT !.state = "idle", !.burst_size = 0, !.idle_count = 0]
         ELSE [d EXCEPT !.burst_size = @ + delta]
    ELSE IF delta > WRITE_THRESHOLD
         THEN [d EXCEPT !.state = "writing", !.burst_size = delta, !.idle_count = 0]
         ELSE IF d.idle_count + 1 >= IDLE_CONFIRM_SECONDS
              THEN [d EXCEPT !.idle_count = @ + 1, !.state = "idle", !.ret = "true"]
              ELSE [d EXCEPT !.idle_count = @ + 1]

\* the history of the call after the delta
note_delta(before, after, delta) ==
    [after EXCEPT !.recent = LastN(Append(@, DeltaClass(delta)), IDLE_CONFIRM_SECONDS),
                  !.visited_writing = @ \/ after.state = "writing",
                  !.loud = @ \/ delta > WRITE_THRESHOLD,
                  !.since_stop = IF after.state = "writing" THEN 0
                                 ELSE IF before.state = "writing" THEN 0
                                 ELSE @ + 1]

\* lines 176-218: the process is not found and the call returns True; or its
\* counter cannot be read; or the first value read is the baseline; or the
\* delta to the value before goes through the state machine
IdleSample ==
    /\ cpc = "i_sample"
    /\ \/ /\ cloc' = [cloc EXCEPT !.state = "idle", !.ret = "true", !.absent = TRUE]
          /\ cpc' = "i_done"
       \/ /\ cloc' = [cloc EXCEPT !.unread = 1]
          /\ cpc' = "i_loop"
       \/ \E written \in Counters :
            IF cloc.prev_written < 0
            THEN /\ cloc' = [cloc EXCEPT !.prev_written = written, !.samples = @ + 1]
                 /\ cpc' = "i_loop"
            ELSE LET delta == written - cloc.prev_written
                     d == [cloc EXCEPT !.prev_written = written, !.samples = @ + 1] IN
                 /\ cloc' = note_delta(cloc, on_delta(d, delta), delta)
                 /\ cpc' = IF cloc'.ret = "true" THEN "i_done" ELSE "i_loop"
    /\ UNCHANGED stop
    /\ IdleUnchanged

\* the stop event is set while the call is running
IdleStop ==
    /\ cfg.mode = "wait_for_idle" /\ cpc # "i_done" /\ ~stop
    /\ stop' = TRUE
    /\ UNCHANGED cpc /\ UNCHANGED cloc
    /\ IdleUnchanged

IdleNext == IdleLoop \/ IdleSleep \/ IdleSample \/ IdleStop

SpecIdle == IdleInit /\ [][IdleNext]_vars

\* wait_for_idle returned True on a confirmation, the process being there
IdleConfirmed == cpc = "i_done" /\ cloc.ret = "true" /\ ~cloc.absent

\* C25 as stated: wait_for_idle confirms idle only when the last
\* IDLE_CONFIRM_SECONDS deltas were each below WRITE_THRESHOLD and, WRITING
\* having been visited, that many deltas were seen after WRITING was left
C25_ConfirmNeedsDeltasBelow ==
    IdleConfirmed =>
        /\ Len(cloc.recent) = IDLE_CONFIRM_SECONDS
        /\ \A i \in 1..Len(cloc.recent) : cloc.recent[i] = "lt"
        /\ cloc.visited_writing => cloc.since_stop >= IDLE_CONFIRM_SECONDS

\* C25: wait_for_idle confirms idle only when the last IDLE_CONFIRM_SECONDS
\* deltas were each not above WRITE_THRESHOLD (a delta equal to it counts as
\* quiet outside WRITING) and, WRITING having been visited, that many deltas
\* were seen after the one that ended WRITING
C25_ConfirmNeedsDeltasNotAbove ==
    IdleConfirmed =>
        /\ Len(cloc.recent) = IDLE_CONFIRM_SECONDS
        /\ \A i \in 1..Len(cloc.recent) : cloc.recent[i] # "gt"
        /\ cloc.visited_writing => cloc.since_stop >= IDLE_CONFIRM_SECONDS

\* idle confirmed after a burst, with a delta equal to the threshold among the
\* last ones
C25_Witness ==
    /\ IdleConfirmed
    /\ cloc.visited_writing
    /\ \E i \in 1..Len(cloc.recent) : cloc.recent[i] = "eq"

\* every read so far gave a value, no delta was above the threshold, the
\* process has been there, and the timeout is longer than the baseline and
\* the confirming samples take
AllQuiet ==
    /\ ~cloc.loud /\ cloc.unread = 0 /\ ~cloc.absent
    /\ cfg.timeout > (IDLE_CONFIRM_SECONDS + 1) * SamplePeriod

\* C26: when every sample is read and quiet, WRITING is never entered, and the
\* call, unless the stop event ends it, returns True in state IDLE on the
\* sample number IDLE_CONFIRM_SECONDS + 1, that many periods after its start
\* and before the timeout
C26_QuietCarConfirmedAtOnce ==
    AllQuiet =>
        /\ ~cloc.visited_writing /\ cloc.state # "writing"
        /\ cloc.samples <= IDLE_CONFIRM_SECONDS + 1
        /\ (cpc = "i_done" /\ ~cloc.stopped) =>
              /\ cloc.ret = "true" /\ cloc.state = "idle"
              /\ cloc.samples = IDLE_CONFIRM_SECONDS + 1
              /\ cloc.now = (IDLE_CONFIRM_SECONDS + 1) * SamplePeriod
              /\ cloc.now < cfg.timeout

\* a quiet car is confirmed idle, one of the deltas being equal to the threshold
C26_Witness ==
    /\ AllQuiet /\ cpc = "i_done" /\ cloc.ret = "true"
    /\ cloc.state = "idle"
    /\ \E i \in 1..Len(cloc.recent) : cloc.recent[i] = "eq"

\* the thread in wait_for_idle keeps running, and its sleeps and reads return
SpecIdleLive ==
    /\ SpecIdle
    /\ WF_vars(IdleLoop) /\ WF_vars(IdleSleep) /\ WF_vars(IdleSample)

\* C27 as stated: the call is over within one sampling period after the
\* timeout, and a call that was not over when the timeout elapsed returns False
C27_FailureAfterTimeout ==
    /\ cloc.now <= cfg.timeout + SamplePeriod
    /\ (cpc = "i_done" /\ cloc.now > cfg.timeout) => cloc.ret = "false"

\* C27: whatever the counter does, the call returns, less than one sampling
\* period after the timeout; it returns False, the stop event apart, only when
\* the loop condition found the timeout elapsed, and the sample of the period
\* in which the timeout elapsed can still make it return True
C27_WaitTerminates ==
    /\ <>(cpc = "i_done")
    /\ [](cloc.now < cfg.timeout + SamplePeriod)
    /\ [](cpc = "i_done" => cloc.ret \in {"true", "false"})
    /\ []((cpc = "i_done" /\ cloc.ret = "false" /\ ~cloc.stopped) =>
             cloc.now >= cfg.timeout)

\* the car was still writing when the loop found the timeout elapsed, after a
\* read that gave nothing
C27_Witness ==
    /\ cpc = "i_done" /\ cloc.ret = "false" /\ ~cloc.stopped
    /\ cloc.state = "writing" /\ cloc.unread = 1
    /\ cloc.now > cfg.timeout

\* ---------------------------------------------------- _backoff_intervals
MaxBase == 4
MaxMaximum == 6
MaxYields == 4
Bases == -1..MaxBase
Maximums == -1..MaxMaximum

min(a, b) == IF a <= b THEN a ELSE b
RECURSIVE Pow2(_)
Pow2(n) == IF n <= 0 THEN 1 ELSE 2 * Pow2(n - 1)

\* a generator object that has not run yet: the body of _backoff_intervals,
\* its checks included, runs on the first next()
NewGen == [st |-> "new", interval |-> 0, error |-> "none"]

\* (the doubling without the cap)
backoff_step_uncapped(interval, maximum) == interval * 2

\* line 49: the interval the loop goes on with after a yield
backoff_step(interval, maximum) == min(interval * 2, maximum)

\* next(g) on a generator made by _backoff_intervals(base, maximum): the
\* generator after the call; interval is the value the call yielded, and a
\* generator that raised ValueError is finished
backoff_next(g, base, maximum) ==
    IF g.st = "new"
    THEN IF base <= 0 THEN [g EXCEPT !.st = "error", !.error = "base"]
         ELSE IF maximum <= 0 THEN [g EXCEPT !.st = "error", !.error = "maximum"]
         ELSE [g EXCEPT !.st = "running", !.interval = min(base, maximum)]
    ELSE IF g.st = "running"
    THEN [g EXCEPT !.interval = backoff_step(@, maximum)]
    ELSE g

\* _backoff_intervals(base, maximum) is called for every base and maximum;
\* cloc holds the generator and the number of values it has yielded
BackoffInit ==
    /\ IdleStore
    /\ \E b \in Bases, m \in Maximums :
         cfg = [mode |-> "backoff", base |-> b, maximum |-> m]
    /\ cstate = "stopped"
    /\ cpc = "b_gen"
    /\ cloc = [gen |-> NewGen, k |-> 0]
    /\ stop = FALSE
    /\ result = NoResult
    /\ cleanup = NoCleanup
    /\ udc = FALSE
    /\ hostLive = "none"
    /\ live = [d \in DirNames |-> NoFile]
    /\ image = [d \in DirNames |-> NoFile]
    /\ copy_log = NoLog
    /\ purged = FALSE

\* next() on the generator
BackoffYield ==
    /\ cpc = "b_gen" /\ cfg.mode = "backoff"
    /\ cloc.gen.st # "error" /\ cloc.k < MaxYields
    /\ LET g == backoff_next(cloc.gen, cfg.base, cfg.maximum) IN
       cloc' = [gen |-> g, k |-> IF g.st = "running" THEN cloc.k + 1 ELSE cloc.k]
    /\ UNCHANGED <<storeVars, cfg, cstate, cpc, stop, result, cleanup, udc, hostLive, live,
                   image, copy_log, purged>>

SpecBackoff == BackoffInit /\ [][BackoffYield]_vars

\* C28: the k-th value yielded (k from 0) is min(base * 2^k, maximum) and is
\* yielded only for a positive base and maximum; a base or a maximum that is
\* not positive raises ValueError on the first next(); the values never go
\* down, never exceed maximum and stay at maximum once they are there
C28_BackoffIntervals ==
    /\ [](cloc.gen.st = "running" =>
             /\ cfg.base > 0 /\ cfg.maximum > 0
             /\ cloc.gen.interval = min(cfg.base * Pow2(cloc.k - 1), cfg.maximum)
             /\ cloc.gen.interval <= cfg.maximum)
    /\ [](cloc.gen.st = "error" <=>
             (cloc.gen.st # "new" /\ (cfg.base <= 0 \/ cfg.maximum <= 0)))
    /\ [][(cloc.gen.st = "running" /\ cloc'.gen.st = "running") =>
             /\ cloc'.gen.interval >= cloc.gen.interval
             /\ cloc.gen.interval = cfg.maximum => cloc'.gen.interval = cfg.maximum]_vars

\* the doubling has gone on and has just been cut at a maximum that is not a
\* base times a power of two
C28_Witness ==
    /\ cloc.gen.st = "running" /\ cloc.k = 3
    /\ cfg.base = 2 /\ cfg.maximum = 5
    /\ cloc.gen.interval = 5

\* ------------------------------------------ the waits of the loop of run()
\* CoordinatorConfig, lines 70 and 80: the defaults of poll_interval and
\* max_idle_interval; line 416, the wait after a cycle that returned False
poll_interval_default == 5
max_idle_interval_default == 300
ErrorWait == 30
MaxProbes == 3
MaxCycles == 4
PollIntervals == (1..MaxBase) \cup {poll_interval_default}
MaxIdleIntervals == (1..MaxMaximum) \cup {max_idle_interval_default}
FileCounts == {0, 5}

\* what _do_archive_cycle leaves in _last_archive when it returns True
CycleResults ==
    { [NoResult EXCEPT !.snapshot_id = 0, !.state = st, !.files_transferred = n] :
        st \in {"completed", "failed"}, n \in FileCounts }

\* the locals of run() and of _wait_for_archive_reachable: the two generators
\* and the delay of the wait being made; and the history of the loop: failed
\* probes since WAITING_FOR_ARCHIVE was entered, waits made since then, cycles
\* in a row that completed with nothing transferred, cycles run, the delays
\* of the waits that followed the cycles, and what the last cycle returned
Loop0 ==
    [idle_backoff |-> NewGen, reach |-> NewGen, delay |-> 0,
     fails |-> 0, waits |-> 0, zeros |-> 0, cycles |-> 0, delays |-> <<>>, ret |-> FALSE]

\* run() is called with a poll_interval and a max_idle_interval; result holds
\* _last_archive and cloc the locals of the loop
LoopInit ==
    /\ IdleStore
    /\ \E b \in PollIntervals, m \in MaxIdleIntervals :
         cfg = [mode |-> "loop", poll_interval |-> b, max_idle_interval |-> m]
    /\ cstate = "starting"
    /\ cpc = "l_loop"
    /\ cloc = Loop0
    /\ stop = FALSE
    /\ result = NoResult
    /\ cleanup = NoCleanup
    /\ udc = FALSE
    /\ hostLive = "none"
    /\ live = [d \in DirNames |-> NoFile]
    /\ image = [d \in DirNames |-> NoFile]
    /\ copy_log = NoLog
    /\ purged = FALSE

LoopUnchanged ==
    UNCHANGED <<storeVars, cfg, cleanup, udc, hostLive, live, image, copy_log, purged>>

\* (WAITING_FOR_ARCHIVE entered with the generator of the wait before)
LWaitEnter_keep ==
    /\ cpc = "l_loop"
    /\ IF stop
       THEN cpc' = "l_finally" /\ UNCHANGED <<cstate, cloc>>
       ELSE /\ cstate' = "waiting_for_archive"
            /\ cloc' = [cloc EXCEPT !.fails = 0, !.waits = 0]
            /\ cpc' = "l_probe"
    /\ UNCHANGED <<stop, result>>
    /\ LoopUnchanged

\* run(), line 407, and _wait_for_archive_reachable, lines 193-195: the state
\* is set and a new generator is made
LWaitEnter ==
    /\ cpc = "l_loop"
    /\ IF stop
       THEN cpc' = "l_finally" /\ UNCHANGED <<cstate, cloc>>
       ELSE /\ cstate' = "waiting_for_archive"
            /\ cloc' = [cloc EXCEPT !.reach = NewGen, !.fails = 0, !.waits = 0]
            /\ cpc' = "l_probe"
    /\ UNCHANGED <<stop, result>>
    /\ LoopUnchanged

\* lines 195-201: the for statement takes the next interval, then
\* is_reachable() is called: True is returned at once, or the wait is begun
LProbe ==
    /\ cpc = "l_probe"
    /\ LET g == backoff_next(cloc.reach, cfg.poll_interval, cfg.max_idle_interval) IN
       \/ /\ cloc' = [cloc EXCEPT !.reach = g]
          /\ cpc' = "l_cycle"
       \/ /\ cloc.fails < MaxProbes
          /\ cloc' = [cloc EXCEPT !.reach = g, !.fails = @ + 1, !.delay = g.interval]
          /\ cpc' = "l_probe_wait"
    /\ UNCHANGED <<cstate, stop, result>>
    /\ LoopUnchanged

\* lines 201-202, _wait_interruptible(interval): the stop event ends the wait
\* and False is returned, which ends the loop of run(); or the interval passes
LProbeWait ==
    /\ cpc = "l_probe_wait"
    /\ IF stop
       THEN cpc' = "l_finally" /\ UNCHANGED cloc
       ELSE cpc' = "l_probe" /\ cloc' = [cloc EXCEPT !.waits = @ + 1]
    /\ UNCHANGED <<cstate, stop, result>>
    /\ LoopUnchanged

\* (the schedule kept when the cycle transferred files or FAILED)
idle_delay_keep(g, last, base, maximum) ==
    IF last.state = "completed" /\ last.files_transferred = 0
    THEN LET n == backoff_next(g, base, maximum) IN [gen |-> n, delay |-> n.interval]
    ELSE [gen |-> g, delay |-> base]

\* the delay run() chooses after a cycle that returned True, lines 423-430:
\* the generator after, and the delay
idle_delay(g, last, base, maximum) ==
    IF last.state = "completed" /\ last.files_transferred = 0
    THEN LET n == backoff_next(g, base, maximum) IN [gen |-> n, delay |-> n.interval]
    ELSE [gen |-> NewGen, delay |-> base]

\* (LCycle waiting poll_interval after a cycle that returned False)
LCycle_nowait ==
    /\ cpc = "l_cycle" /\ cloc.cycles < MaxCycles
    /\ cstate' = "archiving"
    /\ \/ /\ cloc' = [cloc EXCEPT !.idle_backoff = NewGen, !.delay = cfg.poll_interval,
                                  !.zeros = 0, !.cycles = @ + 1,
                                  !.delays = Append(@, cfg.poll_interval), !.ret = FALSE]
          /\ UNCHANGED result
       \/ \E r \in CycleResults :
            LET d == idle_delay(cloc.idle_backoff, r, cfg.poll_interval,
                                cfg.max_idle_interval) IN
            /\ result' = r
            /\ cloc' = [cloc EXCEPT !.idle_backoff = d.gen, !.delay = d.delay,
                          !.zeros = IF r.state = "completed" /\ r.files_transferred = 0
                                    THEN @ + 1 ELSE 0,
                          !.cycles = @ + 1,
                          !.delays = Append(@, d.delay), !.ret = TRUE]
    /\ cpc' = "l_wait"
    /\ UNCHANGED stop
    /\ LoopUnchanged

\* lines 413-430: _do_archive_cycle() returns False, and the schedule is reset
\* for a wait of 30 s; or it returns True with its result in _last_archive
LCycle ==
    /\ cpc = "l_cycle" /\ cloc.cycles < MaxCycles
    /\ cstate' = "archiving"
    /\ \/ /\ cloc' = [cloc EXCEPT !.idle_backoff = NewGen, !.delay = ErrorWait,
                                  !.zeros = 0, !.cycles = @ + 1,
                                  !.delays = Append(@, ErrorWait), !.ret = FALSE]
          /\ UNCHANGED result
       \/ \E r \in CycleResults :
            LET d == idle_delay(cloc.idle_backoff, r, cfg.poll_interval,
                                cfg.max_idle_interval) IN
            /\ result' = r
            /\ cloc' = [cloc EXCEPT !.idle_backoff = d.gen, !.delay = d.delay,
                          !.zeros = IF r.state = "completed" /\ r.files_transferred = 0
                                    THEN @ + 1 ELSE 0,
                          !.cycles = @ + 1,
                          !.delays = Append(@, d.delay), !.ret = TRUE]
    /\ cpc' = "l_wait"
    /\ UNCHANGED stop
    /\ LoopUnchanged

\* lines 416 and 432, _wait_interruptible(delay)
LWait ==
    /\ cpc = "l_wait"
    /\ cpc' = IF stop THEN "l_finally" ELSE "l_loop"
    /\ UNCHANGED <<cstate, cloc, stop, result>>
    /\ LoopUnchanged

\* lines 435-447
LFinally ==
    /\ cpc = "l_finally"
    /\ cstate' = "stopped"
    /\ cpc' = "l_done"
    /\ UNCHANGED <<cloc, stop, result>>
    /\ LoopUnchanged

\* stop()
LStop ==
    /\ cfg.mode = "loop" /\ cpc \notin {"l_finally", "l_done"} /\ ~stop
    /\ stop' = TRUE
    /\ UNCHANGED <<cstate, cpc, cloc, result>>
    /\ LoopUnchanged

LoopNext ==
    \/ LWaitEnter \/ LProbe \/ LProbeWait \/ LCycle \/ LWait \/ LFinally \/ LStop

SpecLoop == LoopInit /\ [][LoopNext]_vars

\* C29: the wait after the k-th failed probe in a row since WAITING_FOR_ARCHIVE
\* was entered is min(poll_interval * 2^(k-1), max_idle_interval), whatever the
\* waits of earlier entries were; a probe that succeeds returns with no wait
\* made; and a wait that finds the stop event set ends the loop of run()
C29_ReachabilityBackoff ==
    /\ [](cpc = "l_probe_wait" =>
             /\ cloc.fails >= 1
             /\ cloc.delay = min(cfg.poll_interval * Pow2(cloc.fails - 1),
                                 cfg.max_idle_interval))
    /\ [][(cpc = "l_probe" /\ cpc' = "l_cycle") =>
             (cloc'.waits = cloc.waits /\ cloc'.delay = cloc.delay)]_vars
    /\ [][(cpc = "l_probe_wait" /\ stop /\ cpc' # cpc) => cpc' = "l_finally"]_vars

\* a later entry into the wait, and its third failed probe, the doubling cut
\* at the maximum
C29_Witness ==
    /\ cpc = "l_probe_wait" /\ cloc.cycles >= 1
    /\ cloc.fails = 3 /\ cloc.waits = 2
    /\ cfg.poll_interval = 2 /\ cfg.max_idle_interval = 5
    /\ cloc.delay = 5

\* C30: after a cycle that returned True the wait is
\* min(poll_interval * 2^(n-1), max_idle_interval) when it is the n-th in a row
\* that completed with nothing transferred, and poll_interval when it
\* transferred files or its result is FAILED; the probes and their waits leave
\* the generator of the loop as it is
C30_IdleBackoff ==
    /\ []((cpc = "l_wait" /\ cloc.ret) =>
             cloc.delay = IF cloc.zeros >= 1
                          THEN min(cfg.poll_interval * Pow2(cloc.zeros - 1),
                                   cfg.max_idle_interval)
                          ELSE cfg.poll_interval)
    /\ [][(cpc \in {"l_loop", "l_probe", "l_probe_wait"}) =>
             (cloc'.idle_backoff = cloc.idle_backoff)]_vars

\* the four cycles of the example: nothing transferred three times, then files
C30_Witness ==
    /\ cpc = "l_wait" /\ cloc.ret
    /\ cfg.poll_interval = poll_interval_default
    /\ cfg.max_idle_interval = max_idle_interval_default
    /\ result.state = "completed" /\ result.files_transferred = 5
    /\ cloc.delays = <<5, 10, 20, 5>>

C32_RunOnceTrueOnlyWhenCompleted ==
    [][(cfg.mode = "run_once" /\ cpc = "cycle_ok" /\ cpc' = "done") =>
           result.state = "completed"]_vars

\* C33: once the stop event is set, run() leaves an inter-cycle sleep and an
\* idle wait for its finally clause at the next step, without starting any
\* further step of a cycle; and whenever run() has returned, through an
\* exception too, the state is STOPPED
C33_StopEndsRunAtNextCheck ==
    /\ []((cfg.mode = "run" /\ cpc = "done") => cstate = "stopped")
    /\ [][(stop /\ cpc \in {"sleep", "idle_wait"} /\ cpc' # cpc) =>
             cpc' = "finally"]_vars

\* the steps of _do_archive_cycle, from its first line to its return
CycleExecuting == cpc \notin {"start", "loop", "probe", "cycle", "cycle_ok", "failed",
                              "sleep", "finally", "done"}

\* C34 as stated: during run() the state only goes STARTING -> WAITING_FOR_ARCHIVE
\* -> ARCHIVING -> WAITING_FOR_ARCHIVE, and from WAITING_FOR_ARCHIVE or
\* ARCHIVING to STOPPED; ARCHIVING is entered only after a successful probe
\* and held only while a cycle is executing; ERROR is never entered
C34_StateTransitions ==
    /\ [][(cfg.mode = "run" /\ cpc # "start" /\ cstate' # cstate) =>
             <<cstate, cstate'>> \in {<<"starting", "waiting_for_archive">>,
                                      <<"waiting_for_archive", "archiving">>,
                                      <<"archiving", "waiting_for_archive">>,
                                      <<"waiting_for_archive", "stopped">>,
                                      <<"archiving", "stopped">>}]_vars
    /\ [][(cfg.mode = "run" /\ cstate # "archiving" /\ cstate' = "archiving") =>
             cpc = "cycle"]_vars
    /\ []((cfg.mode = "run" /\ cstate = "archiving") => CycleExecuting)
    /\ [](cstate # "error")

\* C34: during run() the state only goes STARTING -> WAITING_FOR_ARCHIVE ->
\* ARCHIVING -> WAITING_FOR_ARCHIVE, and from STARTING, WAITING_FOR_ARCHIVE or
\* ARCHIVING to STOPPED; ARCHIVING is entered only after a successful probe
\* and is held through the cycle and the wait that follows it, until the next
\* reachability wait begins or the finally clause runs; ERROR is never entered
C34_StateTransitionsWithSleep ==
    /\ [][(cfg.mode = "run" /\ cpc # "start" /\ cstate' # cstate) =>
             <<cstate, cstate'>> \in {<<"starting", "waiting_for_archive">>,
                                      <<"waiting_for_archive", "archiving">>,
                                      <<"archiving", "waiting_for_archive">>,
                                      <<"starting", "stopped">>,
                                      <<"waiting_for_archive", "stopped">>,
                                      <<"archiving", "stopped">>}]_vars
    /\ [][(cfg.mode = "run" /\ cstate # "archiving" /\ cstate' = "archiving") =>
             cpc = "cycle"]_vars
    /\ [][(cfg.mode = "run" /\ cstate = "archiving" /\ cstate' # "archiving") =>
             cpc \in {"loop", "finally"}]_vars
    /\ []((cfg.mode = "run" /\ CycleExecuting) => cstate = "archiving")
    /\ [](cstate # "error")

\* run() is in the wait after a cycle that returned a result, the state still
\* ARCHIVING
C34_Witness ==
    /\ cfg.mode = "run" /\ cpc = "sleep"
    /\ cstate = "archiving"
    /\ result.state = "completed"

\* C35: delete_oldest_if_deletable returns False only when no registered
\* snapshot has refcount 0 at the call; otherwise it picks a snapshot of
\* refcount 0 whose creation instant is the earliest among those, drops exactly
\* that entry from the table, touches no other entry and no other directory,
\* and returns True
C35_DeleteOldest ==
    /\ [][(pc[Main] = "idle" /\ pc'[Main] = "idle" /\ res'[Main] # res[Main]
              /\ res'[Main] = Res("delete_oldest", "false")) =>
             (\A k \in DOMAIN snapshots : snapshots[k].refcount > 0)]_vars
    /\ [][(pc[Main] = "idle" /\ pc'[Main] = "do_call") =>
             LET k == loc'[Main].snap_id IN
             /\ k \in DOMAIN snapshots /\ snapshots[k].refcount = 0
             /\ \A j \in DOMAIN snapshots :
                   snapshots[j].refcount = 0 =>
                       snapshots[k].created_at <= snapshots[j].created_at]_vars
    /\ [][(pc[Main] = "do_call" /\ pc'[Main] # "do_call" /\ up') =>
             /\ pc'[Main] = "d_toc"
             /\ loc'[Main].oldest /\ loc'[Main].path = loc[Main].snap_id
             /\ DOMAIN snapshots' = DOMAIN snapshots \ {loc[Main].snap_id}
             /\ \A j \in DOMAIN snapshots' : snapshots'[j] = snapshots[j]]_vars
    /\ [][(loc[Main].oldest /\ pc[Main] \in {"d_toc", "d_rm", "d_rming", "d_ret"} /\ up') =>
             /\ snapshots' = snapshots
             /\ \A i \in Ids \ {loc[Main].path} : disk'[i] = disk[i]
             /\ pc'[Main] = "idle" => res'[Main] = Res("delete_oldest", "true")]_vars

\* the call returned True having removed the only snapshot of refcount 0, the
\* other one, referenced, being still registered
C35_Witness ==
    /\ pc[Main] = "idle" /\ res[Main] = Res("delete_oldest", "true")
    /\ \E k \in DOMAIN snapshots : snapshots[k].refcount > 0
    /\ \E i \in Ids \ DOMAIN snapshots : ~disk[i].exists /\ i < next_id

\* ------------------------------------------------------------ space sizer
\* calculate_cam_size (space.py) sizes the live image for cmd_init (cli.py,
\* line 342): 3% of the backing size is set aside, half of the rest is taken
\* and rounded down to a whole number of sectors
MaxBacking == 3200
SECTOR_SIZE == 512
XFS_OVERHEAD_PERCENT == 3
BackingSizes == 0..MaxBacking

\* floor(backing_size * 0.03)
xfs_overhead(backing_size) == (backing_size * XFS_OVERHEAD_PERCENT) \div 100

\* (the size rounded to the nearest sector)
calculate_cam_size_nearest(backing_size) ==
    (((backing_size - xfs_overhead(backing_size)) \div 2 + SECTOR_SIZE \div 2)
        \div SECTOR_SIZE) * SECTOR_SIZE

calculate_cam_size(backing_size) ==
    (((backing_size - xfs_overhead(backing_size)) \div 2) \div SECTOR_SIZE) * SECTOR_SIZE

SizerInit ==
    /\ IdleStore
    /\ \E b \in BackingSizes : cfg = [mode |-> "sizer", backing_size |-> b]
    /\ cstate = "stopped"
    /\ cpc = "s_call"
    /\ cloc = [cam_size |-> -1]
    /\ stop = FALSE
    /\ result = NoResult
    /\ cleanup = NoCleanup
    /\ udc = FALSE
    /\ hostLive = "none"
    /\ live = [d \in DirNames |-> NoFile]
    /\ image = [d \in DirNames |-> NoFile]
    /\ copy_log = NoLog
    /\ purged = FALSE

\* cam_size = calculate_cam_size(backingfiles_size)
SizerCall ==
    /\ cpc = "s_call" /\ cfg.mode = "sizer"
    /\ cloc' = [cam_size |-> calculate_cam_size(cfg.backing_size)]
    /\ cpc' = "s_done"
    /\ UNCHANGED <<storeVars, cfg, cstate, stop, result, cleanup, udc, hostLive, live,
                   image, copy_log, purged>>

SpecSizer == SizerInit /\ [][SizerCall]_vars

\* C36: the size returned is a multiple of 512, is at most half of the backing
\* size less its 3% overhead, and is less than 512 bytes below the floor of
\* that half
C36_CamSizeAligned ==
    cpc = "s_done" =>
        LET b == cfg.backing_size
            overhead == (3 * b) \div 100
            raw == (b - overhead) \div 2
        IN /\ cloc.cam_size >= 0
           /\ cloc.cam_size % 512 = 0
           /\ 2 * cloc.cam_size <= b - overhead
           /\ cloc.cam_size <= raw /\ raw - cloc.cam_size < 512
           /\ cloc.cam_size = (raw \div 512) * 512

\* a size whose half less overhead is not a whole number of sectors, and is
\* nearer to the sector above
C36_Witness ==
    /\ cpc = "s_done"
    /\ cloc.cam_size = 1024
    /\ (cfg.backing_size - (3 * cfg.backing_size) \div 100) \div 2 >= 1024 + 256

\* --------------------------------------- delete_archived_files, per entry
\* ArchiveManager.delete_archived_files over a result whose manifests list
\* several files, a directory name outside DIR_TO_PATH included. cfg holds the
\* result's archived_files and the mounted image as it is at the call; cloc
\* holds the image as the call changes it, the counters and the loop position
MaxEntries == 2
CamFiles == {"a.mp4", "b.mp4", "c.mp4"}
ListedFiles == {"a.mp4", "b.mp4"}
ManifestEntries == [relative_path : ListedFiles, size : Sizes]
ManifestLists == UNION { [1..n -> ManifestEntries] : n \in 0..MaxEntries }
UnknownLists == { <<>>, <<[relative_path |-> "a.mp4", size |-> 1]>> }

\* the entries of the manifests under the names DIR_TO_PATH knows
KnownCount(af) == SumOver([d \in DOMAIN af \cap DirNames |-> Len(af[d])],
                          DOMAIN af \cap DirNames)

CleanupInit ==
    /\ IdleStore
    /\ \E m \in ManifestLists, u \in UnknownLists,
          f \in [ListedFiles -> 0..MaxSize], c \in 0..1 :
         cfg = [mode |-> "delete_archived",
                archived_files |-> [d \in {"SavedClips", "Unknown"} |->
                                       IF d = "SavedClips" THEN m ELSE u],
                fs |-> [x \in CamFiles |-> IF x \in ListedFiles THEN f[x] ELSE c]]
    /\ cstate = "archiving"
    /\ cpc = "daf_dir"
    /\ cloc = [fs |-> cfg.fs, deleted |-> 0, skipped |-> 0,
               todo |-> DOMAIN cfg.archived_files, dir_name |-> "none", files |-> <<>>]
    /\ stop = FALSE
    /\ result = NoResult
    /\ cleanup = NoCleanup
    /\ udc = FALSE
    /\ hostLive = "rw"
    /\ live = [d \in DirNames |-> NoFile]
    /\ image = [d \in DirNames |-> NoFile]
    /\ copy_log = NoLog
    /\ purged = FALSE

CleanupUnchanged ==
    UNCHANGED <<storeVars, cfg, cstate, stop, result, udc, hostLive, live, image,
                copy_log, purged>>

\* lines 461-468 and 507-508: the next item of archived_files; a name that
\* DIR_TO_PATH does not know is logged and passed over; after the last item
\* the pair is returned
DafDir ==
    /\ cpc = "daf_dir" /\ cfg.mode = "delete_archived"
    /\ IF cloc.todo = {}
       THEN /\ cpc' = "daf_done"
            /\ cleanup' = [deleted |-> cloc.deleted, skipped |-> cloc.skipped]
            /\ UNCHANGED cloc
       ELSE /\ \E d \in cloc.todo :
                 IF d \notin DirNames
                 THEN cloc' = [cloc EXCEPT !.todo = @ \ {d}] /\ UNCHANGED cpc
                 ELSE /\ cloc' = [cloc EXCEPT !.todo = @ \ {d}, !.dir_name = d,
                                              !.files = cfg.archived_files[d]]
                      /\ cpc' = "daf_file"
            /\ UNCHANGED cleanup
    /\ CleanupUnchanged

\* (a remove that raised counted as a deletion)
daf_entry_countfail(c, e, stat_ok, remove_ok) ==
    IF c.fs[e.relative_path] = 0 THEN [c EXCEPT !.skipped = @ + 1]
    ELSE IF ~stat_ok \/ c.fs[e.relative_path] # e.size THEN [c EXCEPT !.skipped = @ + 1]
    ELSE IF ~remove_ok THEN [c EXCEPT !.deleted = @ + 1]
    ELSE [c EXCEPT !.fs[e.relative_path] = 0, !.deleted = @ + 1]

\* lines 470-500, one entry: skipped when the file does not exist, when stat
\* raises or gives another size, and when remove raises; else the file is
\* unlinked and counted as deleted
daf_entry(c, e, stat_ok, remove_ok) ==
    IF c.fs[e.relative_path] = 0 THEN [c EXCEPT !.skipped = @ + 1]
    ELSE IF ~stat_ok \/ c.fs[e.relative_path] # e.size THEN [c EXCEPT !.skipped = @ + 1]
    ELSE IF ~remove_ok THEN [c EXCEPT !.skipped = @ + 1]
    ELSE [c EXCEPT !.fs[e.relative_path] = 0, !.deleted = @ + 1]

\* lines 470-503: the next entry of the directory's manifest, or, past the
\* last, _cleanup_empty_dirs (which removes directories only) and the next item
DafFile ==
    /\ cpc = "daf_file"
    /\ IF cloc.files = <<>>
       THEN cpc' = "daf_dir" /\ UNCHANGED cloc
       ELSE /\ \E stat_ok \in BOOLEAN, remove_ok \in BOOLEAN :
                 cloc' = [daf_entry(cloc, Head(cloc.files), stat_ok, remove_ok)
                            EXCEPT !.files = Tail(cloc.files)]
            /\ UNCHANGED cpc
    /\ UNCHANGED cleanup
    /\ CleanupUnchanged

SpecCleanup == CleanupInit /\ [][DafDir \/ DafFile]_vars

\* the files the call has unlinked
UnlinkedFiles == { x \in CamFiles : cfg.fs[x] > 0 /\ cloc.fs[x] = 0 }

\* C37: the pair returned holds the number of files unlinked and, with the
\* skipped ones, the number of entries under known directory names; whatever
\* stat or remove raised the call reached its return; a file is unlinked only
\* when a manifest entry under a known name gives its path and its size, and
\* every other file is as it was
C37_DeletedAndSkippedCount ==
    /\ cloc.deleted = Cardinality(UnlinkedFiles)
    /\ \A x \in CamFiles : cloc.fs[x] \in {cfg.fs[x], 0}
    /\ \A x \in UnlinkedFiles :
          \E d \in DOMAIN cfg.archived_files \cap DirNames :
             \E i \in 1..Len(cfg.archived_files[d]) :
                cfg.archived_files[d][i] = [relative_path |-> x, size |-> cfg.fs[x]]
    /\ cpc = "daf_done" =>
          /\ cleanup.deleted = Cardinality(UnlinkedFiles)
          /\ cleanup.deleted + cleanup.skipped = KnownCount(cfg.archived_files)

\* the call returned having unlinked one file and skipped one whose remove or
\* stat raised, the file still there with the size of its entry; an entry
\* under an unknown name was not counted
C37_Witness ==
    /\ cpc = "daf_done"
    /\ cleanup = [deleted |-> 1, skipped |-> 1]
    /\ Len(cfg.archived_files["Unknown"]) = 1
    /\ \E i \in 1..Len(cfg.archived_files["SavedClips"]) :
          LET e == cfg.archived_files["SavedClips"][i] IN
          cloc.fs[e.relative_path] = e.size

\* ------------------------------ acquire, release and delete from two threads
\* snapshot 0 has been created; the threads call acquire(0), release() on the
\* handles they share and delete_snapshot(0) at any moments. acquire and the
\* head of delete_snapshot run under the store's lock, and so does
\* _release_handle; SnapshotHandle.release reads and sets its _released flag
\* outside any lock
HandlesInit ==
    /\ disk = [i \in Ids |-> IF i = 0 THEN StaleDir(0) ELSE NoDir]
    /\ up = TRUE
    /\ snapshots = [i \in {0} |-> Snapshot(0, 0, 0, 0)]
    /\ next_id = 1
    /\ creating = FALSE
    /\ handles = [h \in HandleIds |-> FreeHandle]
    /\ pc = [t \in Threads |-> "idle"]
    /\ loc = [t \in Threads |-> Loc0]
    /\ res = [t \in Threads |-> NoRes]
    /\ faults = 0
    /\ max_id_seen = 0
    /\ NoCoordinator

\* SnapshotHandle.release, line 161: the test of self._released
ReleaseRead(t, h) ==
    /\ up /\ pc[t] = "idle"
    /\ handles[h].st \in {"held", "released"}
    /\ IF handles[h].st = "held"
       THEN /\ loc' = [loc EXCEPT ![t].handle = h]
            /\ Goto(t, "r_call")
            /\ UNCHANGED res
       ELSE Return(t, Res("release", "released"))
    /\ UNCHANGED <<disk, up, snapshots, next_id, creating, handles, faults, max_id_seen>>

\* line 162: self._manager._release_handle(self), under the lock
ReleaseCall(t) ==
    /\ up /\ pc[t] = "r_call"
    /\ snapshots' = release_handle(snapshots, handles[loc[t].handle])
    /\ Goto(t, "r_set")
    /\ UNCHANGED <<disk, up, next_id, creating, handles, loc, res, faults, max_id_seen>>

\* line 163: self._released = True; the handle keeps its _snapshot
ReleaseSet(t) ==
    /\ up /\ pc[t] = "r_set"
    /\ handles' = [handles EXCEPT ![loc[t].handle].st = "released"]
    /\ Return(t, Res("release", "held"))
    /\ UNCHANGED <<disk, up, snapshots, next_id, creating, faults, max_id_seen>>

HandlesNext ==
    \/ \E t \in Threads : Acquire(t, 0) /\ UNCHANGED coordVars
    \/ \E t \in Threads, h \in HandleIds : ReleaseRead(t, h) /\ UNCHANGED coordVars
    \/ \E t \in Threads : ReleaseCall(t) /\ UNCHANGED coordVars
    \/ \E t \in Threads : ReleaseSet(t) /\ UNCHANGED coordVars
    \/ \E t \in Threads : DeleteBegin(t, 0) /\ UNCHANGED coordVars
    \/ \E t \in Threads : DeleteToc(t) /\ UNCHANGED coordVars
    \/ \E t \in Threads : DeleteRmtree(t) /\ UNCHANGED coordVars
    \/ \E t \in Threads : DeleteRmtreeMore(t) /\ UNCHANGED coordVars
    \/ \E t \in Threads : DeleteReturn(t) /\ UNCHANGED coordVars

SpecHandles == HandlesInit /\ [][HandlesNext]_vars

\* the handles that are held and that no thread is releasing
Unreleased ==
    { h \in HandleIds :
        /\ handles[h].st = "held"
        /\ \A t \in Threads : ~(pc[t] \in {"r_call", "r_set"} /\ loc[t].handle = h) }

\* C38: whatever the interleaving of acquire, release and delete of two
\* threads, the snapshot of every unreleased handle is registered and its
\* directory is whole: no delete has dropped it or is removing its files
C38_NoHandleOnRemovedSnapshot ==
    \A h \in Unreleased :
        /\ handles[h].key \in DOMAIN snapshots
        /\ disk[handles[h].key].toc /\ disk[handles[h].key].bin = "full"

\* --------------------------------- the store over a root it did not write
\* the store is constructed over a root holding the complete directories
\* snap-000000 and snap-000001, each with a metadata.json that records any id
\* and path (a directory renamed, copied or restored), an unparsable one or
\* none; then acquire, release and delete are called
MetaIds == 0..1
ForeignMetas ==
    { [kind |-> "ok", id |-> i, path |-> p, created_at |-> 0] : i \in MetaIds, p \in MetaIds }
        \cup {CorruptMeta, NoMeta}

LoadInit ==
    /\ \E m0 \in ForeignMetas, m1 \in ForeignMetas :
         disk = [i \in Ids |->
                   IF i = 0 THEN [exists |-> TRUE, bin |-> "full", meta |-> m0, toc |-> TRUE]
                   ELSE IF i = 1
                   THEN [exists |-> TRUE, bin |-> "full", meta |-> m1, toc |-> TRUE]
                   ELSE NoDir]
    /\ up = FALSE
    /\ snapshots = EmptyTable
    /\ next_id = 0
    /\ creating = FALSE
    /\ handles = [h \in HandleIds |-> FreeHandle]
    /\ pc = [t \in Threads |-> "idle"]
    /\ loc = [t \in Threads |-> Loc0]
    /\ res = [t \in Threads |-> NoRes]
    /\ faults = 0
    /\ max_id_seen = 1
    /\ NoCoordinator

LoadNext ==
    \/ LoadSnapshots /\ UNCHANGED coordVars
    \/ \E i \in MetaIds : Acquire(Main, i) /\ UNCHANGED coordVars
    \/ \E h \in HandleIds : Release(Main, h) /\ UNCHANGED coordVars
    \/ \E i \in MetaIds : DeleteBegin(Main, i) /\ UNCHANGED coordVars
    \/ DeleteToc(Main) /\ UNCHANGED coordVars
    \/ DeleteRmtree(Main) /\ UNCHANGED coordVars
    \/ DeleteRmtreeMore(Main) /\ UNCHANGED coordVars
    \/ DeleteReturn(Main) /\ UNCHANGED coordVars

SpecLoad == LoadInit /\ [][LoadNext]_vars

\* C39: the object registered under the key parsed from a directory's name has
\* that key as its id and that directory as its path, whatever metadata.json
\* records, and refcount 0 when the construction ends; so a handle of
\* acquire(id) is on snapshot id and delete(id) removes files of snap-<id> only
C39_LoadedFromDirectoryName ==
    /\ [](\A k \in DOMAIN snapshots : snapshots[k].id = k /\ snapshots[k].path = k)
    /\ [][(~up /\ up') => \A k \in DOMAIN snapshots' : snapshots'[k].refcount = 0]_vars
    /\ [](\A h \in HandleIds : handles[h].st = "held" => handles[h].id = handles[h].key)
    /\ []((pc[Main] \in {"d_toc", "d_rm", "d_rming", "d_ret"}) =>
             loc[Main].path = loc[Main].snap_id)

\* ------------------------------------------ the cycle after its idle wait
\* _do_archive_cycle, lines 242-259: wait_for_idle has returned; True, or
\* False on a timeout or a set stop event, only selects a log line, and the
\* cycle goes on to archive_new_snapshot, which calls create_snapshot
CIdleProceed ==
    /\ cpc = "i_done" /\ cfg.mode = "wait_for_idle"
    /\ CreateBegin(Main)
    /\ cpc' = "i_create"
    /\ UNCHANGED <<cfg, cstate, cloc, stop, result, cleanup, udc, hostLive, live, image,
                   copy_log, purged>>

IdleCycleNext == IdleNext \/ CIdleProceed

SpecIdleCycle == IdleInit /\ [][IdleCycleNext]_vars

\* C40: when the stop event has cut the idle wait of a cycle short, that cycle
\* does not go on to create a snapshot
C40_StoppedWaitStartsNoCreate ==
    cloc.stopped => (cpc # "i_create" /\ pc[Main] = "idle" /\ ~creating)
====
